---- MODULE Spec2Model ----
(***************************************************************************)
(* Model of the taguchi-ui Tauri backend (src-tauri/src/commands): the     *)
(* analysis commands (analysis.rs) and the builder commands (builder.rs).  *)
(* Every command is a synchronous, stateless handler; the model keeps the  *)
(* last invocation (its arguments, what the external taguchi library       *)
(* answered, and the handler's outcome) as its state.                      *)
(*                                                                         *)
(* Machine integers keep their width.  TLC's integers stop at 2^31 - 1, so *)
(* u32 values and f64 significands are naturals in base 2^15, written as   *)
(* little-endian limb sequences with no leading zero limb (<<>> is 0).     *)
(***************************************************************************)
EXTENDS Integers, Sequences, FiniteSets, TLC

(***************************************************************************)
(* Naturals of arbitrary size (limb sequences).                            *)
(***************************************************************************)
LimbBits == 15
LimbBase == 32768

\* F of the value of e: a local value that its user refers to several times.
With(e, F(_)) == F(e)

RECURSIVE Pow2(_)
Pow2(k) == IF k = 0 THEN 1 ELSE 2 * Pow2(k - 1)

RECURSIVE BNNorm(_)
BNNorm(s) ==
  IF s = <<>> THEN <<>>
  ELSE IF s[Len(s)] = 0 THEN BNNorm(SubSeq(s, 1, Len(s) - 1))
  ELSE s

RECURSIVE BN(_)
BN(n) == IF n = 0 THEN <<>> ELSE <<n % LimbBase>> \o BN(n \div LimbBase)

\* The value of a natural known to be below 2^30, as a TLA+ integer.
BNSmall(a) ==
  IF Len(a) = 0 THEN 0
  ELSE IF Len(a) = 1 THEN a[1]
  ELSE a[1] + LimbBase * a[2]

BNLimb(a, i) == IF i <= Len(a) THEN a[i] ELSE 0

RECURSIVE BNCmpFrom(_, _, _)
BNCmpFrom(a, b, i) ==
  IF i = 0 THEN 0
  ELSE IF a[i] < b[i] THEN -1
  ELSE IF a[i] > b[i] THEN 1
  ELSE BNCmpFrom(a, b, i - 1)

BNCmp(a, b) ==
  IF Len(a) < Len(b) THEN -1
  ELSE IF Len(a) > Len(b) THEN 1
  ELSE BNCmpFrom(a, b, Len(a))

BNLt(a, b) == BNCmp(a, b) < 0
BNLe(a, b) == BNCmp(a, b) <= 0

RECURSIVE BNAddFrom(_, _, _, _)
BNAddFrom(a, b, i, carry) ==
  IF i > Len(a) /\ i > Len(b)
  THEN (IF carry = 0 THEN <<>> ELSE <<carry>>)
  ELSE LET t == BNLimb(a, i) + BNLimb(b, i) + carry
       IN  <<t % LimbBase>> \o BNAddFrom(a, b, i + 1, t \div LimbBase)

BNAdd(a, b) == BNAddFrom(a, b, 1, 0)

\* a - b for a >= b.
RECURSIVE BNSubFrom(_, _, _, _)
BNSubFrom(a, b, i, borrow) ==
  IF i > Len(a) THEN <<>>
  ELSE LET t == a[i] - BNLimb(b, i) - borrow
       IN  IF t < 0
           THEN <<t + LimbBase>> \o BNSubFrom(a, b, i + 1, 1)
           ELSE <<t>> \o BNSubFrom(a, b, i + 1, 0)

BNSub(a, b) == BNNorm(BNSubFrom(a, b, 1, 0))

\* a * k for 0 <= k <= 2^15.
RECURSIVE BNMulSmallFrom(_, _, _, _)
BNMulSmallFrom(a, k, i, carry) ==
  IF i > Len(a)
  THEN BN(carry)
  ELSE LET t == a[i] * k + carry
       IN  <<t % LimbBase>> \o BNMulSmallFrom(a, k, i + 1, t \div LimbBase)

BNMulSmall(a, k) == BNNorm(BNMulSmallFrom(a, k, 1, 0))

BNShiftLimbs(a, n) == IF a = <<>> THEN <<>> ELSE [i \in 1..n |-> 0] \o a

RECURSIVE BNMulFrom(_, _, _)
BNMulFrom(a, b, i) ==
  IF i > Len(b) THEN <<>>
  ELSE BNAdd(BNShiftLimbs(BNMulSmall(a, b[i]), i - 1), BNMulFrom(a, b, i + 1))

BNMul(a, b) == BNMulFrom(a, b, 1)

\* floor(a / k) for 1 <= k <= 2^15, from the top limb down.
RECURSIVE BNDivSmallFrom(_, _, _, _)
BNDivSmallFrom(a, k, i, rem) ==
  IF i = 0 THEN <<>>
  ELSE LET t == rem * LimbBase + a[i]
       IN  BNDivSmallFrom(a, k, i - 1, t % k) \o <<t \div k>>

BNDivSmall(a, k) == BNNorm(BNDivSmallFrom(a, k, Len(a), 0))

\* a * 2^k and floor(a / 2^k).
BNShl(a, k) ==
  BNShiftLimbs(BNMulSmall(a, Pow2(k % LimbBits)), k \div LimbBits)

BNShr(a, k) ==
  LET q == k \div LimbBits
  IN  IF q >= Len(a) THEN <<>>
      ELSE BNDivSmall(SubSeq(a, q + 1, Len(a)), Pow2(k % LimbBits))

RECURSIVE BitLenSmall(_)
BitLenSmall(n) == IF n = 0 THEN 0 ELSE 1 + BitLenSmall(n \div 2)

BNBitLen(a) ==
  IF a = <<>> THEN 0 ELSE LimbBits * (Len(a) - 1) + BitLenSmall(a[Len(a)])

\* Bit k (k >= 0) of a.
BNBit(a, k) == (BNLimb(a, k \div LimbBits + 1) \div Pow2(k % LimbBits)) % 2

BNIsOdd(a) == BNBit(a, 0) = 1

\* Whether any of the k lowest bits of a is set.
BNLowBits(a, k) == BNShl(BNShr(a, k), k) # a

\* Long division, one quotient limb at a time, for a divisor b whose top
\* limb is at least LimbBase / 2.  The quotient limb of rem / b, where
\* rem < b * LimbBase, is estimated from the top limbs and is at most two
\* too large.
BNDivDigit(rem, b) ==
  With((BNLimb(rem, Len(b) + 1) * LimbBase + BNLimb(rem, Len(b))) \div b[Len(b)],
       LAMBDA est :
  With(IF est >= LimbBase THEN LimbBase - 1 ELSE est, LAMBDA q0 :
  With(IF BNLt(rem, BNMulSmall(b, q0)) THEN q0 - 1 ELSE q0, LAMBDA q1 :
    IF BNLt(rem, BNMulSmall(b, q1)) THEN q1 - 1 ELSE q1)))

\* acc is <<quotient, remainder>> of the limbs of a above limb i.  (The test
\* on acc, which is always a pair, has it evaluated before the descent.)
BNDivStep(acc, limb, b) ==
  With(BNNorm(<<limb>> \o acc[2]), LAMBDA rem :
  With(BNDivDigit(rem, b), LAMBDA q :
    <<BNNorm(<<q>> \o acc[1]), BNSub(rem, BNMulSmall(b, q))>>))

RECURSIVE BNDivLimbs(_, _, _, _)
BNDivLimbs(a, b, i, acc) ==
  IF i = 0 \/ Len(acc) # 2 THEN acc
  ELSE BNDivLimbs(a, b, i - 1, BNDivStep(acc, a[i], b))

\* <<floor(a / b), a mod b>> for b > 0: both are shifted left until the top
\* limb of b is at least LimbBase / 2, which leaves the quotient unchanged.
BNDivMod(a, b) ==
  With(LimbBits - BitLenSmall(b[Len(b)]), LAMBDA sh :
  With(BNShl(a, sh), LAMBDA an :
  With(BNDivLimbs(an, BNShl(b, sh), Len(an), <<<<>>, <<>>>>), LAMBDA qr :
    <<qr[1], BNShr(qr[2], sh)>>)))

\* floor(sqrt(a)) by Newton's iteration from a power of two above the root:
\* x decreases until (x + a / x) / 2 >= x.
RECURSIVE BNSqrtFrom(_, _)
BNSqrtFrom(a, x) ==
  With(BNShr(BNAdd(x, BNDivMod(a, x)[1]), 1), LAMBDA y :
    IF BNLt(y, x) THEN BNSqrtFrom(a, y) ELSE x)

BNSqrt(a) ==
  IF a = <<>> THEN <<>> ELSE BNSqrtFrom(a, BNShl(<<1>>, (BNBitLen(a) + 1) \div 2))

(***************************************************************************)
(* f64: IEEE 754 binary64 with round-to-nearest-even, as Rust's f64        *)
(* arithmetic computes it.  A finite value is (-1)^neg * m * 2^e with m a  *)
(* natural of exactly F64_MANT_DIG bits, or of fewer bits at the least     *)
(* exponent F64_MIN_EXP (subnormals); zero has m = <<>> and e = 0.         *)
(***************************************************************************)
F64_MANT_DIG == 53
F64_MIN_EXP == -1074
F64_MAX_EXP == 971

F64Fin(neg, m, e) == [k |-> "fin", neg |-> neg, m |-> m, e |-> e]
F64Zero(neg) == F64Fin(neg, <<>>, 0)
F64Inf(neg) == [k |-> "inf", neg |-> neg, m |-> <<>>, e |-> 0]
F64NaN == [k |-> "nan", neg |-> FALSE, m |-> <<>>, e |-> 0]

F64IsZero(x) == x.k = "fin" /\ x.m = <<>>

\* The f64 nearest to (-1)^neg * (M + f) * 2^E, where 0 <= f < 1 and
\* sticky tells whether f > 0; ties go to the even significand.  With
\* sticky set, M has more than F64_MANT_DIG bits.
F64Round(neg, M, E, sticky) ==
  IF M = <<>> THEN F64Zero(neg)
  ELSE
    With(BNBitLen(M), LAMBDA n :
    With(IF E + (n - F64_MANT_DIG) < F64_MIN_EXP
         THEN F64_MIN_EXP - E
         ELSE n - F64_MANT_DIG, LAMBDA sh :
      IF sh <= 0
      THEN IF E + sh > F64_MAX_EXP THEN F64Inf(neg)
           ELSE F64Fin(neg, BNShl(M, 0 - sh), E + sh)
      ELSE
        With(BNShr(M, sh), LAMBDA q :
        With(IF /\ BNBit(M, sh - 1) = 1
                /\ (sticky \/ BNLowBits(M, sh - 1) \/ BNIsOdd(q))
             THEN BNAdd(q, <<1>>)
             ELSE q, LAMBDA q1 :
        With(BNBitLen(q1) > F64_MANT_DIG, LAMBDA carry :
        With(IF carry THEN BNShr(q1, 1) ELSE q1, LAMBDA m :
          IF m = <<>> THEN F64Zero(neg)
          ELSE IF E + sh + (IF carry THEN 1 ELSE 0) > F64_MAX_EXP THEN F64Inf(neg)
          ELSE F64Fin(neg, m, E + sh + (IF carry THEN 1 ELSE 0))))))))

\* `n as f64` for an unsigned integer n (a limb sequence).
F64FromNat(n) == F64Round(FALSE, n, 0, FALSE)

F64_ZERO == F64Zero(FALSE)
F64_ONE == F64FromNat(<<1>>)
\* f64::EPSILON = 2^-52.
F64_EPSILON == F64Fin(FALSE, BNShl(<<1>>, F64_MANT_DIG - 1), 2 - 2 * F64_MANT_DIG)

F64Neg(x) == IF x.k = "nan" THEN x ELSE [x EXCEPT !.neg = ~x.neg]
F64Abs(x) == IF x.k = "nan" THEN x ELSE [x EXCEPT !.neg = FALSE]

\* -1, 0, 1 as |x| is below, equal to or above |y|, for finite x and y.
F64CmpMag(x, y) ==
  LET e0 == IF x.e < y.e THEN x.e ELSE y.e
  IN  BNCmp(BNShl(x.m, x.e - e0), BNShl(y.m, y.e - e0))

F64Add(x, y) ==
  IF x.k = "nan" \/ y.k = "nan" THEN F64NaN
  ELSE IF x.k = "inf" /\ y.k = "inf"
       THEN (IF x.neg = y.neg THEN x ELSE F64NaN)
  ELSE IF x.k = "inf" THEN x
  ELSE IF y.k = "inf" THEN y
  ELSE IF x.m = <<>> /\ y.m = <<>> THEN F64Zero(x.neg /\ y.neg)
  ELSE IF x.m = <<>> THEN y
  ELSE IF y.m = <<>> THEN x
  ELSE
    With(IF x.e < y.e THEN x.e ELSE y.e, LAMBDA e0 :
    With(BNShl(x.m, x.e - e0), LAMBDA mx :
    With(BNShl(y.m, y.e - e0), LAMBDA my :
    With(BNCmp(mx, my), LAMBDA c :
      IF x.neg # y.neg /\ c = 0 THEN F64Zero(FALSE)
      ELSE F64Round(IF x.neg = y.neg \/ c > 0 THEN x.neg ELSE y.neg,
                    IF x.neg = y.neg THEN BNAdd(mx, my)
                    ELSE IF c > 0 THEN BNSub(mx, my)
                    ELSE BNSub(my, mx),
                    e0, FALSE)))))

F64Sub(x, y) == F64Add(x, F64Neg(y))

F64Mul(x, y) ==
  IF x.k = "nan" \/ y.k = "nan" THEN F64NaN
  ELSE IF x.k = "inf" \/ y.k = "inf"
       THEN (IF F64IsZero(x) \/ F64IsZero(y) THEN F64NaN
             ELSE F64Inf(x.neg # y.neg))
  ELSE IF x.m = <<>> \/ y.m = <<>> THEN F64Zero(x.neg # y.neg)
  ELSE F64Round(x.neg # y.neg, BNMul(x.m, y.m), x.e + y.e, FALSE)

F64Div(x, y) ==
  IF x.k = "nan" \/ y.k = "nan" THEN F64NaN
  ELSE IF x.k = "inf"
       THEN (IF y.k = "inf" THEN F64NaN ELSE F64Inf(x.neg # y.neg))
  ELSE IF y.k = "inf" THEN F64Zero(x.neg # y.neg)
  ELSE IF y.m = <<>>
       THEN (IF x.m = <<>> THEN F64NaN ELSE F64Inf(x.neg # y.neg))
  ELSE IF x.m = <<>> THEN F64Zero(x.neg # y.neg)
  ELSE
    With(F64_MANT_DIG + 3 + BNBitLen(y.m) - BNBitLen(x.m), LAMBDA d :
    With(IF d > 0 THEN d ELSE 0, LAMBDA sh :
    With(BNDivMod(BNShl(x.m, sh), y.m), LAMBDA qr :
      F64Round(x.neg # y.neg, qr[1], x.e - sh - y.e, qr[2] # <<>>))))

F64Sqrt(x) ==
  IF x.k = "nan" THEN F64NaN
  ELSE IF F64IsZero(x) THEN x
  ELSE IF x.neg THEN F64NaN
  ELSE IF x.k = "inf" THEN x
  ELSE
    With(2 * F64_MANT_DIG + 4 - BNBitLen(x.m), LAMBDA d :
    With(IF d > 0 THEN d ELSE 0, LAMBDA sh0 :
    With(IF (x.e - sh0) % 2 = 0 THEN sh0 ELSE sh0 + 1, LAMBDA sh :
    With(BNShl(x.m, sh), LAMBDA M :
    With(BNSqrt(M), LAMBDA s :
      F64Round(FALSE, s, (x.e - sh) \div 2, BNMul(s, s) # M))))))

\* x < y (false when either is NaN).
F64Lt(x, y) ==
  IF x.k = "nan" \/ y.k = "nan" THEN FALSE
  ELSE IF F64IsZero(x) /\ F64IsZero(y) THEN FALSE
  ELSE IF x.neg # y.neg THEN x.neg
  ELSE IF x.k = "inf" \/ y.k = "inf"
       THEN (IF x.neg THEN x.k = "inf" /\ y.k # "inf"
             ELSE y.k = "inf" /\ x.k # "inf")
  ELSE IF x.neg THEN F64CmpMag(x, y) > 0
  ELSE F64CmpMag(x, y) < 0

F64Le(x, y) ==
  /\ x.k # "nan" /\ y.k # "nan"
  /\ ~F64Lt(y, x)

F64IsFinite(x) == x.k = "fin"

(***************************************************************************)
(* u32, usize and the outcome of a call.                                   *)
(***************************************************************************)
U32_BITS == 32
U32_MAX == BNSub(BNShl(<<1>>, U32_BITS), <<1>>)

\* A command returns Ok(v) or Err(message), or panics (no result at all).
Ok(v) == [tag |-> "Ok", val |-> v]
Err(e) == [tag |-> "Err", val |-> e]
Panic(m) == [tag |-> "Panic", val |-> m]
NoResult == [tag |-> "None", val |-> <<>>]

\* a + b in u32.  With overflow checks (a debug build) an overflowing sum
\* panics; without them (a release build) it wraps modulo 2^32.
U32Add(a, b, checks) ==
  LET sum == BNAdd(a, b)
  IN  IF BNLe(sum, U32_MAX) THEN Ok(sum)
      ELSE IF checks THEN Panic("attempt to add with overflow")
      ELSE Ok(BNSub(sum, BNShl(<<1>>, U32_BITS)))

\* n / (d as usize) for a usize n below 2^30 and a u32 d.
UsizeDivU32(n, d) ==
  IF d = <<>> THEN Panic("attempt to divide by zero")
  ELSE IF BNLt(BN(n), d) THEN Ok(0)
  ELSE Ok(n \div BNSmall(d))

(***************************************************************************)
(* analysis.rs: data_to_oa.  Rows and columns are numbered from 1 here     *)
(* (the code's row r, column c are r + 1, c + 1).                          *)
(***************************************************************************)
ERR_EMPTY_INPUT == "Array data cannot be empty"
ERR_EMPTY_FACTORS == "Array must have at least one factor"
ERR_RAGGED_ROWS == "All rows must have the same number of columns"

\* The shape checks with the row lengths compared first.
ShapeCheckRaggedFirst(data) ==
  IF Len(data) = 0 THEN Err(ERR_EMPTY_INPUT)
  ELSE IF ~(\A r \in 1..Len(data) : Len(data[r]) = Len(data[1]))
       THEN Err(ERR_RAGGED_ROWS)
  ELSE IF Len(data[1]) = 0 THEN Err(ERR_EMPTY_FACTORS)
  ELSE Ok(<<>>)

\* Lines 116-130: the shape checks, in the code's order.
ShapeCheck(data) ==
  IF Len(data) = 0 THEN Err(ERR_EMPTY_INPUT)
  ELSE IF Len(data[1]) = 0 THEN Err(ERR_EMPTY_FACTORS)
  ELSE IF ~(\A r \in 1..Len(data) : Len(data[r]) = Len(data[1]))
       THEN Err(ERR_RAGGED_ROWS)
  ELSE Ok(<<>>)

\* data.iter().map(|row| row[col]).max().unwrap_or(0)
RECURSIVE ColumnMaxFrom(_, _, _)
ColumnMaxFrom(data, col, r) ==
  IF r > Len(data) THEN <<>>
  ELSE LET rest == ColumnMaxFrom(data, col, r + 1)
       IN  IF BNLt(data[r][col], rest) THEN rest ELSE data[r][col]

ColumnMax(data, col) == ColumnMaxFrom(data, col, 1)

\* levels[col] = max_val + 1
InferLevel(data, col, checks) == U32Add(ColumnMax(data, col), <<1>>, checks)

\* Lines 132-137 for a matrix that passed the shape checks: the levels
\* vector, or the panic of the first column whose sum overflows.
InferLevels(data, checks) ==
  LET factors == Len(data[1])
      lv == [c \in 1..factors |-> InferLevel(data, c, checks)]
  IN  IF \E c \in 1..factors : lv[c].tag = "Panic"
      THEN Panic("attempt to add with overflow")
      ELSE Ok([c \in 1..factors |-> lv[c].val])

\* data_to_oa.  new_mixed is what taguchi's OAParams::new_mixed(runs, levels,
\* 2) answers: Ok, or Err(e) which is returned as e.to_string().
data_to_oa(data, checks, new_mixed) ==
  LET shape == ShapeCheck(data)
  IN  IF shape.tag = "Err" THEN shape
      ELSE LET lv == InferLevels(data, checks)
           IN  IF lv.tag = "Panic" THEN lv
               ELSE IF new_mixed.tag = "Err" THEN new_mixed
               ELSE Ok([data |-> data,
                        runs |-> Len(data),
                        factors |-> Len(data[1]),
                        levels |-> lv.val,
                        strength |-> 2])

\* Whether data_to_oa gets as far as calling OAParams::new_mixed.
ReachesNewMixed(data, checks) ==
  /\ ShapeCheck(data).tag = "Ok"
  /\ InferLevels(data, checks).tag = "Ok"

(***************************************************************************)
(* analysis.rs: get_balance_report.                                        *)
(***************************************************************************)
\* *counts.entry(val).or_insert(0) += 1
CountEntry(counts, v) ==
  IF v \in DOMAIN counts THEN [counts EXCEPT ![v] = @ + 1]
  ELSE [w \in (DOMAIN counts) \cup {v} |-> IF w = v THEN 1 ELSE counts[w]]

\* Lines 64-68: the HashMap of one column after rows 1..r were counted.
RECURSIVE LevelCounts(_, _, _)
LevelCounts(oa, col, r) ==
  IF r = 0 THEN [w \in {} |-> 0]
  ELSE CountEntry(LevelCounts(oa, col, r - 1), oa.data[r][col])

\* The expected count of every column taken from the first column's levels.
ExpectedForFirst(oa, col) == UsizeDivU32(oa.runs, oa.levels[1])

\* Line 71: oa.runs() / (oa.levels_for(col) as usize)
ExpectedFor(oa, col) == UsizeDivU32(oa.runs, oa.levels[col])

\* The comparison with >= for ==.
IsBalancedAtLeast(counts, expected) ==
  \A v \in DOMAIN counts : counts[v] >= expected

\* Line 72: counts.values().all(|&c| c == expected)
IsBalanced(counts, expected) == \A v \in DOMAIN counts : counts[v] = expected

\* Lines 63-76 for one column.
FactorBalance(oa, col) ==
  IsBalanced(LevelCounts(oa, col, oa.runs), ExpectedFor(oa, col).val)

\* The reported expected count taken from the last column's levels.
ExpectedCountLast(oa) ==
  IF oa.factors > 0 THEN UsizeDivU32(oa.runs, oa.levels[oa.factors]) ELSE Ok(0)

\* Lines 78-82.
ExpectedCount(oa) ==
  IF oa.factors > 0 THEN UsizeDivU32(oa.runs, oa.levels[1]) ELSE Ok(0)

BalanceOf(oa) ==
  IF \E c \in 1..oa.factors : ExpectedFor(oa, c).tag = "Panic"
  THEN Panic("attempt to divide by zero")
  ELSE Ok([factor_balance |-> [c \in 1..oa.factors |-> FactorBalance(oa, c)],
           level_counts |-> [c \in 1..oa.factors |-> LevelCounts(oa, c, oa.runs)],
           expected_count |-> ExpectedCount(oa).val])

get_balance_report(data, checks, new_mixed) ==
  LET oa == data_to_oa(data, checks, new_mixed)
  IN  IF oa.tag # "Ok" THEN oa ELSE BalanceOf(oa.val)

(***************************************************************************)
(* analysis.rs: get_correlation_matrix and calculate_correlation, in       *)
(* binary64 arithmetic.                                                    *)
(***************************************************************************)
\* oa.get(r, col) as f64
EntryF64(oa, r, col) == F64FromNat(oa.data[r][col])

\* (0..oa.runs()).map(|r| oa.get(r, col) as f64).sum::<f64>() over rows 1..r
RECURSIVE ColumnSum(_, _, _)
ColumnSum(oa, col, r) ==
  IF r = 0 THEN F64_ZERO
  ELSE F64Add(ColumnSum(oa, col, r - 1), EntryF64(oa, r, col))

ColumnMean(oa, col) == F64Div(ColumnSum(oa, col, oa.runs), F64FromNat(BN(oa.runs)))

\* Lines 164-174: cov, var_i and var_j after rows 1..r.
RECURSIVE Moments(_, _, _, _, _, _)
Moments(oa, col_i, col_j, mean_i, mean_j, r) ==
  IF r = 0 THEN [cov |-> F64_ZERO, var_i |-> F64_ZERO, var_j |-> F64_ZERO]
  ELSE With(Moments(oa, col_i, col_j, mean_i, mean_j, r - 1), LAMBDA prev :
       With(F64Sub(EntryF64(oa, r, col_i), mean_i), LAMBDA xi :
       With(F64Sub(EntryF64(oa, r, col_j), mean_j), LAMBDA xj :
         [cov |-> F64Add(prev.cov, F64Mul(xi, xj)),
          var_i |-> F64Add(prev.var_i, F64Mul(xi, xi)),
          var_j |-> F64Add(prev.var_j, F64Mul(xj, xj))])))

calculate_correlation(oa, col_i, col_j) ==
  With(ColumnMean(oa, col_i), LAMBDA mean_i :
  With(ColumnMean(oa, col_j), LAMBDA mean_j :
  With(Moments(oa, col_i, col_j, mean_i, mean_j, oa.runs), LAMBDA m :
  With(F64Sqrt(F64Mul(m.var_i, m.var_j)), LAMBDA denom :
    IF F64Lt(denom, F64_EPSILON) THEN F64_ZERO ELSE F64Div(m.cov, denom)))))

CorrelationOf(oa) ==
  Ok([matrix |-> [i \in 1..oa.factors |-> [j \in 1..oa.factors |->
                    IF i = j THEN F64_ONE ELSE calculate_correlation(oa, i, j)]],
      factors |-> oa.factors])

get_correlation_matrix(data, checks, new_mixed) ==
  LET oa == data_to_oa(data, checks, new_mixed)
  IN  IF oa.tag # "Ok" THEN oa ELSE CorrelationOf(oa.val)

(***************************************************************************)
(* analysis.rs: verify_array and compute_array_strength.  The text of an   *)
(* issue (its Debug rendering) is a sequence of characters.                *)
(***************************************************************************)
\* debug_str.contains(pat)
StrContains(str, pat) ==
  \E i \in 0..(Len(str) - Len(pat)) : SubSeq(str, i + 1, i + Len(pat)) = pat

VALUE_OUT_OF_RANGE ==
  <<"V", "a", "l", "u", "e", "O", "u", "t", "O", "f", "R", "a", "n", "g", "e">>

\* The conversion with the pattern looked for at the start of the text only.
ConvertIssuePrefixOnly(debug_str) ==
  IF /\ Len(debug_str) >= Len(VALUE_OUT_OF_RANGE)
     /\ SubSeq(debug_str, 1, Len(VALUE_OUT_OF_RANGE)) = VALUE_OUT_OF_RANGE
  THEN [issue_type |-> "Value Out of Range", description |-> debug_str,
        location |-> "None"]
  ELSE [issue_type |-> "Balance Violation", description |-> debug_str,
        location |-> "None"]

\* Lines 20-36: one issue of the verifier, converted.
ConvertIssue(debug_str) ==
  IF StrContains(debug_str, VALUE_OUT_OF_RANGE)
  THEN [issue_type |-> "Value Out of Range", description |-> debug_str,
        location |-> "None"]
  ELSE [issue_type |-> "Balance Violation", description |-> debug_str,
        location |-> "None"]

\* Lines 13-44.  verified is what taguchi::verify_strength(&oa, claimed)
\* answers: Err(e), or Ok of a result with is_valid, actual_strength and
\* the issues (each as its Debug rendering).
VerificationOf(claimed_strength, verified) ==
  IF verified.tag = "Err" THEN verified
  ELSE Ok([is_valid |-> verified.val.is_valid,
           claimed_strength |-> claimed_strength,
           actual_strength |-> verified.val.actual_strength,
           issues |-> [i \in 1..Len(verified.val.issues) |->
                         ConvertIssue(verified.val.issues[i])]])

verify_array(data, claimed_strength, checks, new_mixed, verified) ==
  LET oa == data_to_oa(data, checks, new_mixed)
  IN  IF oa.tag # "Ok" THEN oa ELSE VerificationOf(claimed_strength, verified)

\* computed is what taguchi::compute_strength(&oa, max_check) answers.
compute_array_strength(data, max_check, checks, new_mixed, computed) ==
  LET oa == data_to_oa(data, checks, new_mixed)
  IN  IF oa.tag # "Ok" THEN oa ELSE computed

(***************************************************************************)
(* The state: the command in progress, its arguments, what the taguchi     *)
(* library answered during the call, and the outcome.                      *)
(***************************************************************************)
VARIABLES
  overflow_checks,  \* the build: TRUE with overflow checks (debug profile)
  cmd,              \* the command that ran last, "idle" before and between
  arg,              \* its arguments
  ext,              \* the answers of the taguchi library it received
  oa_levels,        \* data_to_oa's local `levels` after line 137
  ret               \* what the command returned, or its panic

vars == <<overflow_checks, cmd, arg, ext, oa_levels, ret>>

Init ==
  /\ overflow_checks \in BOOLEAN
  /\ cmd = "idle"
  /\ arg = <<>>
  /\ ext = <<>>
  /\ oa_levels = NoResult
  /\ ret = NoResult

\* The front end takes the outcome of a command that has returned; the next
\* command can be invoked.
Return ==
  /\ cmd # "idle"
  /\ ret # NoResult
  /\ cmd' = "idle"
  /\ arg' = <<>>
  /\ ext' = <<>>
  /\ oa_levels' = NoResult
  /\ ret' = NoResult
  /\ UNCHANGED overflow_checks

(***************************************************************************)
(* Inputs of the analysis commands.                                        *)
(***************************************************************************)
MaxRuns == 2
MaxFactors == 2
MaxIssues == 2
CorrMaxRuns == 5

EntryValues == {BN(0), BN(1), BN(2)}
RowsUpTo(f) == UNION {[1..c -> EntryValues] : c \in 0..f}
\* Every Vec<Vec<u32>> of up to MaxRuns rows of up to MaxFactors entries.
Arrays == UNION {[1..r -> RowsUpTo(MaxFactors)] : r \in 0..MaxRuns}

\* One array for each path through data_to_oa.
ProbeArrays ==
  { <<>>,
    << <<>> >>,
    << <<BN(0)>>, <<BN(1), BN(1)>> >>,
    << <<BN(0), BN(1)>>, <<BN(1), BN(0)>> >>,
    << <<U32_MAX>> >> }

\* Two-column arrays of 0 and 1 with up to CorrMaxRuns runs.
BinaryArrays ==
  UNION {[1..r -> [1..2 -> {BN(0), BN(1)}]] : r \in 1..CorrMaxRuns}

Strengths == {BN(0), BN(2), U32_MAX}

NewMixedAnswers == {Ok(<<>>), Err("invalid parameters")}

TXT_RANGE == VALUE_OUT_OF_RANGE \o <<" ", "{", " ", "r", "o", "w", ":", " ", "0", " ", "}">>
TXT_BALANCE == <<"B", "a", "l", "a", "n", "c", "e", "V", "i", "o", "l", "a", "t", "i", "o", "n">>
TXT_NESTED == <<"O", "t", "h", "e", "r", "(">> \o VALUE_OUT_OF_RANGE \o <<")">>
TXT_NEAR == SubSeq(VALUE_OUT_OF_RANGE, 1, Len(VALUE_OUT_OF_RANGE) - 1)
TXT_LOWER == <<"v", "a", "l", "u", "e", "o", "u", "t", "o", "f", "r", "a", "n", "g", "e">>
IssueTexts == {TXT_RANGE, TXT_BALANCE, TXT_NESTED, TXT_NEAR, TXT_LOWER, <<>>}
IssueLists == UNION {[1..n -> IssueTexts] : n \in 0..MaxIssues}

VerifyAnswers ==
  {Err("verification failed")} \cup
  {Ok([is_valid |-> v, actual_strength |-> s, issues |-> l]) :
     v \in BOOLEAN, s \in Strengths, l \in IssueLists}

ComputeAnswers == {Err("strength computation failed")} \cup {Ok(s) : s \in Strengths}

\* The part of a call that is data_to_oa: the levels it infers and the
\* answer of OAParams::new_mixed, if it gets that far.
LevelsAfter(data, checks) ==
  IF ShapeCheck(data).tag = "Ok" THEN InferLevels(data, checks) ELSE NoResult

NewMixedSeen(data, checks, new_mixed) ==
  IF ReachesNewMixed(data, checks) THEN new_mixed ELSE NoResult

\* What the library call after data_to_oa answered, if the call was made.
AnswerSeen(data, checks, new_mixed, answer) ==
  IF data_to_oa(data, checks, new_mixed).tag = "Ok" THEN answer ELSE NoResult

(***************************************************************************)
(* The analysis commands.                                                  *)
(***************************************************************************)
VerifyArray ==
  /\ cmd = "idle"
  /\ \E data \in ProbeArrays, claimed_strength \in Strengths,
        new_mixed \in NewMixedAnswers, verified \in VerifyAnswers :
       /\ cmd' = "verify_array"
       /\ arg' = [data |-> data, claimed_strength |-> claimed_strength]
       /\ ext' = [new_mixed |-> NewMixedSeen(data, overflow_checks, new_mixed),
                  answer |-> AnswerSeen(data, overflow_checks, new_mixed, verified)]
       /\ oa_levels' = LevelsAfter(data, overflow_checks)
       /\ ret' = verify_array(data, claimed_strength, overflow_checks,
                              new_mixed, verified)
  /\ UNCHANGED overflow_checks

ComputeArrayStrength ==
  /\ cmd = "idle"
  /\ \E data \in ProbeArrays, max_check \in Strengths,
        new_mixed \in NewMixedAnswers, computed \in ComputeAnswers :
       /\ cmd' = "compute_array_strength"
       /\ arg' = [data |-> data, max_check |-> max_check]
       /\ ext' = [new_mixed |-> NewMixedSeen(data, overflow_checks, new_mixed),
                  answer |-> AnswerSeen(data, overflow_checks, new_mixed, computed)]
       /\ oa_levels' = LevelsAfter(data, overflow_checks)
       /\ ret' = compute_array_strength(data, max_check, overflow_checks,
                                        new_mixed, computed)
  /\ UNCHANGED overflow_checks

GetBalanceReport ==
  /\ cmd = "idle"
  /\ \E data \in Arrays \cup ProbeArrays, new_mixed \in NewMixedAnswers :
       /\ cmd' = "get_balance_report"
       /\ arg' = [data |-> data]
       /\ ext' = [new_mixed |-> NewMixedSeen(data, overflow_checks, new_mixed)]
       /\ oa_levels' = LevelsAfter(data, overflow_checks)
       /\ ret' = get_balance_report(data, overflow_checks, new_mixed)
  /\ UNCHANGED overflow_checks

GetCorrelationMatrix(inputs) ==
  /\ cmd = "idle"
  /\ \E data \in inputs, new_mixed \in NewMixedAnswers :
       /\ cmd' = "get_correlation_matrix"
       /\ arg' = [data |-> data]
       /\ ext' = [new_mixed |-> NewMixedSeen(data, overflow_checks, new_mixed)]
       /\ oa_levels' = LevelsAfter(data, overflow_checks)
       /\ ret' = get_correlation_matrix(data, overflow_checks, new_mixed)
  /\ UNCHANGED overflow_checks

NextAnalysis ==
  \/ VerifyArray
  \/ ComputeArrayStrength
  \/ GetBalanceReport
  \/ GetCorrelationMatrix(ProbeArrays)
  \/ Return

SpecAnalysis == Init /\ [][NextAnalysis]_vars

NextCorrelation ==
  \/ GetCorrelationMatrix(BinaryArrays)
  \/ Return

SpecCorrelation == Init /\ [][NextCorrelation]_vars

(***************************************************************************)
(* builder.rs: validate_build_params.  Messages and constraints are        *)
(* Strings, here sequences of characters; format!("{}", n) writes the      *)
(* decimal digits of n.                                                    *)
(***************************************************************************)
DecimalDigits == <<"0", "1", "2", "3", "4", "5", "6", "7", "8", "9">>

\* The decimal digits of a TLA+ natural, most significant first.
RECURSIVE DisplayInt(_)
DisplayInt(k) ==
  IF k < 10 THEN <<DecimalDigits[k + 1]>>
  ELSE DisplayInt(k \div 10) \o <<DecimalDigits[(k % 10) + 1]>>

\* The Display form of an unsigned integer (a limb sequence).
RECURSIVE Display(_)
Display(n) ==
  IF Len(n) <= 2 THEN DisplayInt(BNSmall(n))
  ELSE LET q == BNDivSmall(n, 10)
           r == BNSmall(BNSub(n, BNMulSmall(q, 10)))
       IN  Display(q) \o <<DecimalDigits[r + 1]>>

MSG_NO_LEVELS ==
  <<"A", "t", " ", "l", "e", "a", "s", "t", " ", "o", "n", "e", " ", "l",
    "e", "v", "e", "l", " ", "m", "u", "s", "t", " ", "b", "e", " ", "s",
    "p", "e", "c", "i", "f", "i", "e", "d">>
MSG_LEVELS_MIN ==
  <<"L", "e", "v", "e", "l", "s", " ", "m", "u", "s", "t", " ", "b", "e",
    " ", "a", "t", " ", "l", "e", "a", "s", "t", " ", "2">>
MSG_FACTORS_MIN ==
  <<"F", "a", "c", "t", "o", "r", "s", " ", "m", "u", "s", "t", " ", "b",
    "e", " ", "a", "t", " ", "l", "e", "a", "s", "t", " ", "1">>
TXT_STRENGTH ==
  <<"S", "t", "r", "e", "n", "g", "t", "h", " ">>
TXT_CANNOT_EXCEED ==
  <<" ", "c", "a", "n", "n", "o", "t", " ", "e", "x", "c", "e", "e", "d",
    " ", "f", "a", "c", "t", "o", "r", "s", " ">>
TXT_LEVELS ==
  <<"L", "e", "v", "e", "l", "s", " ">>
TXT_NOT_PRIME_POWER ==
  <<" ", "i", "s", " ", "n", "o", "t", " ", "a", " ", "p", "r", "i", "m",
    "e", " ", "p", "o", "w", "e", "r", " ", "-", " ", "l", "i", "m", "i",
    "t", "e", "d", " ", "c", "o", "n", "s", "t", "r", "u", "c", "t", "i",
    "o", "n", "s", " ", "a", "v", "a", "i", "l", "a", "b", "l", "e">>
TXT_NO_CONSTRUCTION ==
  <<"N", "o", " ", "c", "o", "n", "s", "t", "r", "u", "c", "t", "i", "o",
    "n", " ", "a", "v", "a", "i", "l", "a", "b", "l", "e", " ", "f", "o",
    "r", " ">>
TXT_LEVELS_SEP ==
  <<" ", "l", "e", "v", "e", "l", "s", ",", " ">>
TXT_FACTORS_SEP ==
  <<" ", "f", "a", "c", "t", "o", "r", "s", ",", " ", "s", "t", "r", "e",
    "n", "g", "t", "h", " ">>
TXT_REQUIRES ==
  <<"R", "e", "q", "u", "i", "r", "e", "s", " ">>
TXT_PRIME_POWER ==
  <<" ", "t", "o", " ", "b", "e", " ", "a", " ", "p", "r", "i", "m", "e",
    " ", "p", "o", "w", "e", "r">>
TXT_MAX ==
  <<"M", "a", "x", " ">>
TXT_FACTORS ==
  <<" ", "f", "a", "c", "t", "o", "r", "s">>
TXT_ONLY_2_LEVELS ==
  <<"O", "n", "l", "y", " ", "f", "o", "r", " ", "2", " ", "l", "e", "v",
    "e", "l", "s">>
TXT_RUNS_POWER_OF_2 ==
  <<"R", "u", "n", "s", " ", "m", "u", "s", "t", " ", "b", "e", " ", "p",
    "o", "w", "e", "r", " ", "o", "f", " ", "2">>
TXT_PALEY ==
  <<"R", "e", "q", "u", "i", "r", "e", "s", " ", "(", "r", "u", "n", "s",
    "-", "1", ")", " ", "t", "o", " ", "b", "e", " ", "p", "r", "i", "m",
    "e", " ", "U+2261", " ", "3", " ", "(", "m", "o", "d", " ", "4", ")">>
TXT_ODD_PRIME_POWER ==
  <<"R", "e", "q", "u", "i", "r", "e", "s", " ", "o", "d", "d", " ", "p",
    "r", "i", "m", "e", " ", "p", "o", "w", "e", "r", " ", "l", "e", "v",
    "e", "l", "s">>

StrengthExceedsMessage(strength, factors) ==
  TXT_STRENGTH \o Display(strength) \o TXT_CANNOT_EXCEED \o Display(BN(factors))

NotPrimePowerMessage(levels) ==
  TXT_LEVELS \o Display(levels) \o TXT_NOT_PRIME_POWER

NoConstructionMessage(levels, factors, strength) ==
  TXT_NO_CONSTRUCTION \o Display(levels) \o TXT_LEVELS_SEP
    \o Display(BN(factors)) \o TXT_FACTORS_SEP \o Display(strength)

get_construction_description(name) ==
  CASE name = "Bose" -> "Primary construction for strength 2 arrays"
    [] name = "Bush" -> "Higher strength arrays (t >= 2)"
    [] name = "Bose-Bush" -> "Extended Bose for binary (2 level) arrays"
    [] name = "Hadamard-Sylvester" -> "Binary arrays from Hadamard matrices"
    [] name = "Hadamard-Paley" -> "Binary arrays using Paley construction"
    [] name = "Addelman-Kempthorne" -> "Extended construction for odd prime powers"
    [] name = "Rao-Hamming" -> "Arrays from linear codes"
    [] OTHER -> "Construction method"

\* The constraint list, or the panic of levels + 1 in the "Bose" arm.
get_construction_constraints(name, levels, checks) ==
  CASE name = "Bose" ->
         LET next == U32Add(levels, <<1>>, checks)
         IN  IF next.tag = "Panic" THEN next
             ELSE Ok(<<TXT_REQUIRES \o Display(levels) \o TXT_PRIME_POWER,
                       TXT_MAX \o Display(next.val) \o TXT_FACTORS>>)
    [] name = "Bush" ->
         Ok(<<TXT_REQUIRES \o Display(levels) \o TXT_PRIME_POWER>>)
    [] name = "Bose-Bush" -> Ok(<<TXT_ONLY_2_LEVELS>>)
    [] name = "Hadamard-Sylvester" ->
         Ok(<<TXT_ONLY_2_LEVELS, TXT_RUNS_POWER_OF_2>>)
    [] name = "Hadamard-Paley" -> Ok(<<TXT_ONLY_2_LEVELS, TXT_PALEY>>)
    [] name = "Addelman-Kempthorne" -> Ok(<<TXT_ODD_PRIME_POWER>>)
    [] OTHER -> Ok(<<>>)

\* One catalogue triple (name, runs, max_factors) as a ConstructionOption.
ConstructionOption(triple, levels, checks) ==
  [name |-> triple[1],
   runs |-> triple[2],
   max_factors |-> triple[3],
   description |-> get_construction_description(triple[1]),
   constraints |-> get_construction_constraints(triple[1], levels, checks)]

\* The options in the reverse of the catalogue's order.
CollectOptionsReversed(triples, levels, checks) ==
  Ok([i \in 1..Len(triples) |->
        [name |-> triples[Len(triples) + 1 - i][1],
         runs |-> triples[Len(triples) + 1 - i][2],
         max_factors |-> triples[Len(triples) + 1 - i][3],
         description |-> get_construction_description(triples[Len(triples) + 1 - i][1]),
         constraints |-> <<>>]])

\* .map(...).collect(): the options, or the panic of the first one.
CollectOptions(triples, levels, checks) ==
  LET opts == [i \in 1..Len(triples) |-> ConstructionOption(triples[i], levels, checks)]
  IN  IF \E i \in 1..Len(triples) : opts[i].constraints.tag = "Panic"
      THEN Panic("attempt to add with overflow")
      ELSE Ok([i \in 1..Len(triples) |->
                 [opts[i] EXCEPT !.constraints = opts[i].constraints.val]])

\* *lvls.iter().max().unwrap() of a non-empty list
RECURSIVE MaxLevelFrom(_, _)
MaxLevelFrom(lvls, i) ==
  IF i = Len(lvls) THEN lvls[i]
  ELSE LET rest == MaxLevelFrom(lvls, i + 1)
       IN  IF BNLt(lvls[i], rest) THEN rest ELSE lvls[i]

\* A LevelSpec is [kind, v] with v the list of Mixed(v), or the one-element
\* list <<s>> of Symmetric(s).
\* Lines 79-94: the level used for validation and lookup.
LevelOf(spec) ==
  IF spec.kind = "Symmetric" THEN spec.v[1] ELSE MaxLevelFrom(spec.v, 1)

EmptyMixed(spec) == spec.kind = "Mixed" /\ spec.v = <<>>

\* The hard errors with the checks stopping at the first failure.
HardErrorsFirstOnly(request) ==
  IF BNLt(LevelOf(request.levels), BN(2)) THEN <<MSG_LEVELS_MIN>>
  ELSE IF request.factors < 1 THEN <<MSG_FACTORS_MIN>>
  ELSE IF BNLt(BN(request.factors), request.strength)
       THEN <<StrengthExceedsMessage(request.strength, request.factors)>>
  ELSE <<>>

\* Lines 96-110: the hard errors, in the order they are pushed.
HardErrors(request) ==
  LET lv == LevelOf(request.levels)
  IN  (IF BNLt(lv, BN(2)) THEN <<MSG_LEVELS_MIN>> ELSE <<>>)
      \o (IF request.factors < 1 THEN <<MSG_FACTORS_MIN>> ELSE <<>>)
      \o (IF BNLt(BN(request.factors), request.strength)
          THEN <<StrengthExceedsMessage(request.strength, request.factors)>>
          ELSE <<>>)

\* Lines 112-118.  prime_power is the answer of taguchi::is_prime_power.
Warnings(request, prime_power) ==
  IF ~prime_power THEN <<NotPrimePowerMessage(LevelOf(request.levels))>> ELSE <<>>

\* The filter with a strict comparison.
KeptTriplesStrict(request, catalogue) ==
  SelectSeq(catalogue, LAMBDA t : t[3] > request.factors)

\* Line 124: the catalogue triples that offer enough factors.
KeptTriples(request, catalogue) ==
  SelectSeq(catalogue, LAMBDA t : t[3] >= request.factors)

\* Lines 120-134.  errors are the hard errors; catalogue is the answer of
\* available_constructions, which is called only when there are none.
Suggestions(request, errors, catalogue, checks) ==
  IF errors = <<>>
  THEN CollectOptions(KeptTriples(request, catalogue), LevelOf(request.levels), checks)
  ELSE Ok(<<>>)

\* The errors without the one for an empty suggestion list.
AllErrorsHardOnly(request, errors, suggestions) == errors

\* Lines 136-141.
AllErrors(request, errors, suggestions) ==
  IF suggestions = <<>> /\ errors = <<>>
  THEN errors \o <<NoConstructionMessage(LevelOf(request.levels), request.factors,
                                         request.strength)>>
  ELSE errors

\* The early return with the level rule applied to a level of 0.
EarlyResultFallsThrough(errors, warnings) ==
  [valid |-> FALSE, errors |-> errors \o <<MSG_LEVELS_MIN>>,
   warnings |-> warnings, suggestions |-> <<>>]

\* Lines 84-89: the result returned for an empty mixed list.
EarlyResult(errors, warnings) ==
  [valid |-> FALSE, errors |-> errors, warnings |-> warnings,
   suggestions |-> <<>>]

\* The result with warnings counted against validity.
ValidationResultStrict(errors, warnings, suggestions) ==
  [valid |-> errors = <<>> /\ warnings = <<>>, errors |-> errors,
   warnings |-> warnings, suggestions |-> suggestions]

\* Lines 143-148.
ValidationResult(errors, warnings, suggestions) ==
  [valid |-> errors = <<>>, errors |-> errors, warnings |-> warnings,
   suggestions |-> suggestions]

validate_build_params(request, checks, prime_power, catalogue) ==
  IF EmptyMixed(request.levels)
  THEN Ok(EarlyResult(<<MSG_NO_LEVELS>>, <<>>))
  ELSE LET hard == HardErrors(request)
           sugg == Suggestions(request, hard, catalogue, checks)
       IN  IF sugg.tag = "Panic" THEN sugg
           ELSE Ok(ValidationResult(AllErrors(request, hard, sugg.val),
                                    Warnings(request, prime_power),
                                    sugg.val))

\* Whether the call gets as far as asking the catalogue.
QueriesCatalogue(request) ==
  ~EmptyMixed(request.levels) /\ HardErrors(request) = <<>>

(***************************************************************************)
(* Inputs of the builder commands.                                         *)
(***************************************************************************)
MaxMixed == 2
MaxReqFactors == 2
MaxCatalogue == 2

LevelValues == {BN(1), BN(2), BN(6), U32_MAX}
StrengthValues == {BN(0), BN(1), BN(2), BN(3)}
LevelSpecs ==
  {[kind |-> "Symmetric", v |-> <<s>>] : s \in LevelValues} \cup
  {[kind |-> "Mixed", v |-> l] :
     l \in UNION {[1..n -> LevelValues] : n \in 0..MaxMixed}}
BuildRequests ==
  [levels : LevelSpecs, factors : 0..MaxReqFactors, strength : StrengthValues]

CatalogueTriples ==
  { <<"Bose", 9, 1>>, <<"Bush", 27, 2>>, <<"Hadamard-Sylvester", 4, 3>>,
    <<"Addelman-Kempthorne", 18, 0>>, <<"Latin", 8, 2>> }
CatalogueAnswers == UNION {[1..n -> CatalogueTriples] : n \in 0..MaxCatalogue}

(***************************************************************************)
(* The builder commands.                                                   *)
(***************************************************************************)
ValidateBuildParams ==
  /\ cmd = "idle"
  /\ \E request \in BuildRequests, prime_power \in BOOLEAN,
        catalogue \in CatalogueAnswers :
       /\ cmd' = "validate_build_params"
       /\ arg' = [request |-> request]
       /\ ext' = [is_prime_power |->
                    IF EmptyMixed(request.levels) THEN NoResult ELSE Ok(prime_power),
                  available_constructions |->
                    IF QueriesCatalogue(request) THEN Ok(catalogue) ELSE NoResult]
       /\ oa_levels' = NoResult
       /\ ret' = validate_build_params(request, overflow_checks, prime_power,
                                       catalogue)
  /\ UNCHANGED overflow_checks

NextBuilder ==
  \/ ValidateBuildParams
  \/ Return

SpecBuilder == Init /\ [][NextBuilder]_vars

(***************************************************************************)
(* builder.rs: build_oa and detect_algorithm.  The array that              *)
(* OABuilder::build returns lies in memory, so its runs, factors and       *)
(* levels are far below the range of usize; they are TLA+ naturals here.   *)
(***************************************************************************)
\* usize::is_power_of_two
RECURSIVE is_power_of_two(_)
is_power_of_two(n) ==
  IF n = 0 THEN FALSE
  ELSE IF n = 1 THEN TRUE
  ELSE n % 2 = 0 /\ is_power_of_two(n \div 2)

\* `n as u32` for a usize n: the low U32_BITS bits.
UsizeAsU32(n) == BNSub(BN(n), BNShl(BNShr(BN(n), U32_BITS), U32_BITS))

\* taguchi::is_prime of a u32 below 2^30
is_prime(n) ==
  LET k == BNSmall(n)
  IN  k >= 2 /\ \A d \in 2..(k - 1) : k % d # 0

\* The rules with the 2 * levels^2 rule tried before the others.
DetectDoubleSquareFirst(runs, factors, levels) ==
  IF runs = 2 * (levels * levels) /\ factors <= 2 * levels + 1
  THEN (IF levels = 2 THEN "Bose-Bush" ELSE "Addelman-Kempthorne")
  ELSE IF levels = 2 /\ is_power_of_two(runs) THEN "Hadamard-Sylvester"
  ELSE IF levels = 2 /\ runs > 1 /\ is_prime(UsizeAsU32(runs - 1))
       THEN "Hadamard-Paley"
  ELSE IF runs = levels * levels /\ factors <= levels + 1 THEN "Bose"
  ELSE "Unknown"

\* The rules with the Bose rule tried before the two-level rules.
DetectBoseFirst(runs, factors, levels) ==
  IF runs = levels * levels /\ factors <= levels + 1 THEN "Bose"
  ELSE IF levels = 2 /\ is_power_of_two(runs) THEN "Hadamard-Sylvester"
  ELSE IF levels = 2 /\ runs > 1 /\ is_prime(UsizeAsU32(runs - 1))
       THEN "Hadamard-Paley"
  ELSE IF runs = 2 * (levels * levels) /\ factors <= 2 * levels + 1
       THEN (IF levels = 2 THEN "Bose-Bush" ELSE "Addelman-Kempthorne")
  ELSE "Unknown"

\* Lines 154-182, for oa.runs(), oa.factors() and oa.levels().
detect_algorithm(runs, factors, levels) ==
  IF levels = 2 /\ is_power_of_two(runs) THEN "Hadamard-Sylvester"
  ELSE IF levels = 2 /\ runs > 1 /\ is_prime(UsizeAsU32(runs - 1))
       THEN "Hadamard-Paley"
  ELSE IF runs = levels * levels /\ factors <= levels + 1 THEN "Bose"
  ELSE IF runs = 2 * (levels * levels) /\ factors <= 2 * levels + 1
       THEN (IF levels = 2 THEN "Bose-Bush" ELSE "Addelman-Kempthorne")
  ELSE "Unknown"

\* Lines 39-52: the OAData of a built array.  Its rows are copied from the
\* array unchanged and are left out; id and created_at are fresh values.
OADataOf(oa) ==
  [id |-> "uuid", runs |-> oa.runs, factors |-> oa.factors,
   levels |-> [c \in 1..oa.factors |-> oa.levels], strength |-> oa.strength,
   metadata |-> [name |-> "None",
                 algorithm |-> detect_algorithm(oa.runs, oa.factors, oa.levels),
                 created_at |-> "now", notes |-> "None"]]

\* built is the answer of OABuilder::build: an error, or the array, given
\* here by its shape and by the construction that made it.
build_oa(request, built) ==
  IF built.tag # "Ok" THEN built ELSE Ok(OADataOf(built.val))

(***************************************************************************)
(* Inputs of build_oa.                                                     *)
(***************************************************************************)
MaxOARuns == 19
MaxOAFactors == 6
MaxOALevels == 4

\* Requests for a symmetric array.  An Option is a list of at most one value.
BuildOaRequests ==
  [levels : {[kind |-> "Symmetric", v |-> <<BN(s)>>] : s \in 1..MaxOALevels},
   factors : 0..MaxOAFactors,
   strength : {BN(2)},
   min_runs : {<<>>, <<MaxOARuns>>}]

IsPrimePower(q) ==
  \E p \in 2..q :
    /\ \A d \in 2..(p - 1) : p % d # 0
    /\ \E k \in 1..q : (p ^ k) = q

\* The constructions that make an array of this shape (of strength 2, so
\* of two factors at least): Bose makes q^2 runs of up to q + 1 factors for
\* a prime power q, Hadamard-Sylvester makes a power of two of runs for
\* 2 levels; "other" stands for the rest.
MethodsFor(runs, factors, levels) ==
  {"other"}
  \cup (IF /\ IsPrimePower(levels) /\ runs = levels * levels
           /\ factors >= 2 /\ factors <= levels + 1
        THEN {"Bose"} ELSE {})
  \cup (IF /\ levels = 2 /\ runs >= 2 /\ is_power_of_two(runs)
           /\ factors >= 2 /\ factors < runs
        THEN {"Hadamard-Sylvester"} ELSE {})

\* What OABuilder::build can answer to a request.
BuildAnswers(request) ==
  {Err("construction failed")} \cup
  {Ok([runs |-> runs, factors |-> request.factors,
       levels |-> BNSmall(LevelOf(request.levels)),
       strength |-> BNSmall(request.strength), method |-> method]) :
     <<runs, method>> \in
       UNION {{<<r, m>> : m \in MethodsFor(r, request.factors,
                                           BNSmall(LevelOf(request.levels)))} :
              r \in 0..MaxOARuns}}

BuildOa ==
  /\ cmd = "idle"
  /\ \E request \in BuildOaRequests :
       \E built \in BuildAnswers(request) :
         /\ cmd' = "build_oa"
         /\ arg' = [request |-> request]
         /\ ext' = [build |-> built]
         /\ oa_levels' = NoResult
         /\ ret' = build_oa(request, built)
  /\ UNCHANGED overflow_checks

NextBuildOa ==
  \/ BuildOa
  \/ Return

SpecBuildOa == Init /\ [][NextBuildOa]_vars

(***************************************************************************)
(* doe_analysis.rs: run_doe_analysis.  Its messages are Strings; an Option *)
(* is a list of at most one value; lists are numbered from 1 here, so the  *)
(* library's factor_index k is position k + 1.                             *)
(***************************************************************************)
\* format!("{}", k) of a usize k
RECURSIVE DisplayUsize(_)
DisplayUsize(k) ==
  IF k < 10 THEN SubSeq("0123456789", k + 1, k + 1)
  ELSE DisplayUsize(k \div 10) \o SubSeq("0123456789", (k % 10) + 1, (k % 10) + 1)

\* The preconditions with the two length checks exchanged.
PreconditionsNamesFirst(request) ==
  IF request.array_data = <<>> THEN Err("Array data is empty")
  ELSE IF request.response_data = <<>> THEN Err("Response data is empty")
  ELSE IF Len(request.array_data) # Len(request.response_data)
       THEN Err("Array data and response data must have same number of runs")
  ELSE IF Len(request.factor_names) # Len(request.array_data[1])
       THEN Err("Number of factor names must match number of columns")
  ELSE IF Len(request.factor_ids) # Len(request.array_data[1])
       THEN Err("Number of factor IDs must match number of columns")
  ELSE Ok(<<>>)

\* Lines 20-39: the first violated precondition, if any.
Preconditions(request) ==
  IF request.array_data = <<>> THEN Err("Array data is empty")
  ELSE IF request.response_data = <<>> THEN Err("Response data is empty")
  ELSE IF Len(request.array_data) # Len(request.response_data)
       THEN Err("Array data and response data must have same number of runs")
  ELSE IF Len(request.factor_ids) # Len(request.array_data[1])
       THEN Err("Number of factor IDs must match number of columns")
  ELSE IF Len(request.factor_names) # Len(request.array_data[1])
       THEN Err("Number of factor names must match number of columns")
  ELSE Ok(<<>>)

\* Lines 44-47: sort, dedup and count the entries of column col.
DistinctLevels(array_data, col) ==
  UsizeAsU32(Cardinality({array_data[r][col] : r \in 1..Len(array_data)}))

\* Lines 42-49.  row[col] panics for a row that has no column col.
levels_per_factor(array_data) ==
  IF \E r \in 1..Len(array_data) : Len(array_data[r]) < Len(array_data[1])
  THEN Panic("index out of bounds")
  ELSE Ok([col \in 1..Len(array_data[1]) |-> DistinctLevels(array_data, col)])

\* Lines 101-120.  The row named in the error is counted from 0.
convert_to_array2(data) ==
  IF data = <<>> THEN Err("Empty data")
  ELSE IF \E r \in 1..Len(data) : Len(data[r]) # Len(data[1])
  THEN LET i == CHOOSE r \in 1..Len(data) :
                  /\ Len(data[r]) # Len(data[1])
                  /\ \A q \in 1..(r - 1) : Len(data[q]) = Len(data[1])
       IN  Err("Row " \o DisplayUsize(i - 1) \o " has "
               \o DisplayUsize(Len(data[i])) \o " columns, expected "
               \o DisplayUsize(Len(data[1])))
  ELSE Ok(data)

\* unwrap_or
UnwrapOr(option, default) == IF option = <<>> THEN default ELSE option[1]

F64_TWO == F64FromNat(BN(2))
\* 0.95: the f64 nearest to 95 / 100.
F64_0_95 == F64Div(F64FromNat(BN(95)), F64FromNat(BN(100)))

\* The configuration with the caller's options ignored.
AnalysisConfigDefaultsOnly(request) ==
  [optimization_type |-> request.optimization_type,
   target_value |-> request.target_value,
   pooling_threshold |-> F64_TWO,
   enable_pooling |-> TRUE,
   min_unpooled_factors |-> 1,
   confidence_level |-> F64_0_95]

\* Lines 61-76.  The two enums have the same three names.
AnalysisConfig(request) ==
  [optimization_type |->
     CASE request.optimization_type = "LargerIsBetter" -> "LargerIsBetter"
       [] request.optimization_type = "SmallerIsBetter" -> "SmallerIsBetter"
       [] request.optimization_type = "NominalIsBest" -> "NominalIsBest",
   target_value |-> request.target_value,
   pooling_threshold |-> UnwrapOr(request.pooling_threshold, F64_TWO),
   enable_pooling |-> UnwrapOr(request.enable_pooling, TRUE),
   min_unpooled_factors |-> UnwrapOr(request.min_unpooled_factors, 1),
   confidence_level |-> UnwrapOr(request.confidence_level, F64_0_95)]

\* Lines 123-139.
map_main_effects(effects, factor_ids, factor_names) ==
  [i \in 1..Len(effects) |->
     [factor_id |-> factor_ids[effects[i].factor_index + 1],
      factor_name |-> factor_names[effects[i].factor_index + 1],
      level_means |-> effects[i].level_means,
      level_effects |-> effects[i].level_effects,
      range |-> effects[i].range,
      rank |-> effects[i].rank]]

\* Lines 142-156.
map_sn_ratio_effects(effects, factor_ids, factor_names) ==
  [i \in 1..Len(effects) |->
     [factor_id |-> factor_ids[effects[i].factor_index + 1],
      factor_name |-> factor_names[effects[i].factor_index + 1],
      level_sn_ratios |-> effects[i].level_sn_ratios,
      optimal_level |-> effects[i].optimal_level]]

\* Lines 159-188.
map_anova_result(result, factor_ids, factor_names) ==
  [entries |->
     [i \in 1..Len(result.entries) |->
        [factor_id |-> factor_ids[result.entries[i].factor_index + 1],
         factor_name |-> factor_names[result.entries[i].factor_index + 1],
         sum_of_squares |-> result.entries[i].sum_of_squares,
         degrees_of_freedom |-> result.entries[i].degrees_of_freedom,
         mean_square |-> result.entries[i].mean_square,
         f_ratio |-> result.entries[i].f_ratio,
         p_value |-> result.entries[i].p_value,
         contribution_percent |-> result.entries[i].contribution_percent,
         pooled |-> result.entries[i].pooled]],
   error_ss |-> result.error_ss,
   error_df |-> result.error_df,
   error_ms |-> result.error_ms,
   total_ss |-> result.total_ss,
   total_df |-> result.total_df]

\* Lines 196-201: collecting (id, level) pairs into a HashMap keeps, for
\* each key, the pair inserted last.
CollectFactorLevels(levels, factor_ids) ==
  [id \in {factor_ids[k] : k \in 1..Len(levels)} |->
     levels[CHOOSE k \in 1..Len(levels) :
              /\ factor_ids[k] = id
              /\ \A j \in (k + 1)..Len(levels) : factor_ids[j] # id]]

\* Lines 191-215.
map_optimal_settings(settings, factor_ids) ==
  [factor_levels |-> CollectFactorLevels(settings.factor_levels, factor_ids),
   predicted_mean |-> settings.predicted_mean,
   predicted_sn_ratio |-> settings.predicted_sn_ratio,
   confidence_interval |->
     [i \in 1..Len(settings.confidence_interval) |->
        [lower |-> settings.confidence_interval[i].lower,
         upper |-> settings.confidence_interval[i].upper,
         level |-> settings.confidence_interval[i].level]]]

\* Lines 82-97.  analyzed_at is the time of the call.
DOEAnalysis(lib_result, request) ==
  [config_id |-> "",
   grand_mean |-> lib_result.grand_mean,
   sn_grand_mean |-> lib_result.sn_grand_mean,
   main_effects |-> map_main_effects(lib_result.main_effects,
                                     request.factor_ids, request.factor_names),
   sn_ratio_effects |-> map_sn_ratio_effects(lib_result.sn_ratio_effects,
                                             request.factor_ids,
                                             request.factor_names),
   anova |-> map_anova_result(lib_result.anova, request.factor_ids,
                              request.factor_names),
   optimal_settings |-> map_optimal_settings(lib_result.optimal_settings,
                                             request.factor_ids),
   analyzed_at |-> "now"]

\* How far a call gets before the library is asked: 0 fails a
\* precondition, 1 panics deriving the levels, 2 fails the conversion,
\* 3 reaches OAParams::new_mixed.
DoeReaches(request) ==
  IF Preconditions(request).tag # "Ok" THEN 0
  ELSE IF levels_per_factor(request.array_data).tag # "Ok" THEN 1
  ELSE IF convert_to_array2(request.array_data).tag # "Ok" THEN 2
  ELSE 3

\* Lines 19-98.  new_mixed, try_new and analyzed are the answers of
\* OAParams::new_mixed, OA::try_new and doe::analyze.
run_doe_analysis(request, new_mixed, try_new, analyzed) ==
  IF Preconditions(request).tag # "Ok" THEN Preconditions(request)
  ELSE IF levels_per_factor(request.array_data).tag # "Ok"
       THEN levels_per_factor(request.array_data)
  ELSE IF convert_to_array2(request.array_data).tag # "Ok"
       THEN Err("Failed to convert array data: "
                \o convert_to_array2(request.array_data).val)
  ELSE IF new_mixed.tag # "Ok"
       THEN Err("Invalid OA parameters: " \o new_mixed.val)
  ELSE IF try_new.tag # "Ok" THEN Err("Failed to create OA: " \o try_new.val)
  ELSE IF analyzed.tag # "Ok" THEN Err("Analysis failed: " \o analyzed.val)
  ELSE Ok(DOEAnalysis(analyzed.val, request))

(***************************************************************************)
(* Inputs of run_doe_analysis and the answers of the library.  The library *)
(* is taken to answer within its own types: every factor_index is below    *)
(* the number of factors and factor_levels has one level for each factor.  *)
(***************************************************************************)
MaxDoeRuns == 2
MaxDoeFactors == 2

DoeEntryValues == {BN(0), BN(1)}
DoeRows == UNION {[1..c -> DoeEntryValues] : c \in 0..MaxDoeFactors}
\* Every Vec<Vec<u32>> of up to MaxDoeRuns rows of up to MaxDoeFactors entries.
DoeArrays == UNION {[1..r -> DoeRows] : r \in 0..MaxDoeRuns}
\* One replicate for each of n runs.
Responses(n) == [r \in 1..n |-> <<F64FromNat(BN(r))>>]
FactorIdLists == UNION {[1..n -> {"A", "B"}] : n \in 0..MaxDoeFactors}
FactorNames(n) == [k \in 1..n |-> "factor " \o DisplayUsize(k)]

F64_0_9 == F64Div(F64FromNat(BN(9)), F64FromNat(BN(10)))
NoOptions ==
  [optimization_type |-> "LargerIsBetter", target_value |-> <<>>,
   pooling_threshold |-> <<>>, enable_pooling |-> <<>>,
   min_unpooled_factors |-> <<>>, confidence_level |-> <<>>]
DoeOptions ==
  [optimization_type : {"LargerIsBetter", "SmallerIsBetter", "NominalIsBest"},
   target_value : {<<>>, <<F64_ONE>>},
   pooling_threshold : {<<>>, <<F64_ONE>>},
   enable_pooling : {<<>>, <<FALSE>>, <<TRUE>>},
   min_unpooled_factors : {<<>>, <<2>>},
   confidence_level : {<<>>, <<F64_0_9>>}]

DoeRequestOf(array_data, runs, factor_ids, names, options) ==
  [array_data |-> array_data,
   response_data |-> Responses(runs),
   factor_ids |-> factor_ids,
   factor_names |-> FactorNames(names),
   optimization_type |-> options.optimization_type,
   target_value |-> options.target_value,
   pooling_threshold |-> options.pooling_threshold,
   enable_pooling |-> options.enable_pooling,
   min_unpooled_factors |-> options.min_unpooled_factors,
   confidence_level |-> options.confidence_level]

\* k identifiers, "A" and "B" in turn.
FactorIds(k) == [i \in 1..k |-> IF i % 2 = 1 THEN "A" ELSE "B"]

\* The numbers of responses, the identifiers and the numbers of names that
\* go with an array: every number of each, and as many responses as runs
\* with every list of identifiers and as many names.
DoeShapes(array_data) ==
  {<<r, FactorIds(k), n>> :
     r \in 0..MaxDoeRuns, k \in 0..MaxDoeFactors, n \in 0..MaxDoeFactors}
  \cup {<<Len(array_data), ids, Len(ids)>> : ids \in FactorIdLists}

\* Every choice of options for one well-formed request, none for the others.
DoeOptionsFor(array_data, shape) ==
  IF array_data = << <<BN(0)>>, <<BN(1)>> >> /\ shape = <<2, <<"A">>, 1>>
  THEN DoeOptions
  ELSE {NoOptions}

TryNewAnswers == {Ok(<<>>), Err("array does not match parameters")}

\* The library's factors in the order of their columns, or reversed.
FactorOrders(n) == {[i \in 1..n |-> i - 1], [i \in 1..n |-> n - i]}

\* A result of doe::analyze for n factors whose numbers tell the factors
\* apart.
LibResult(n, order, optimal) ==
  [grand_mean |-> F64_ONE,
   sn_grand_mean |-> F64_TWO,
   main_effects |->
     [i \in 1..n |->
        [factor_index |-> order[i],
         level_means |-> <<F64FromNat(BN(order[i])), F64_ONE>>,
         level_effects |-> <<F64Neg(F64_ONE), F64FromNat(BN(order[i]))>>,
         range |-> F64FromNat(BN(order[i] + 1)),
         rank |-> i]],
   sn_ratio_effects |->
     [i \in 1..n |->
        [factor_index |-> order[i],
         level_sn_ratios |-> <<F64FromNat(BN(order[i])), F64_TWO>>,
         optimal_level |-> optimal[order[i] + 1]]],
   anova |->
     [entries |->
        [i \in 1..n |->
           [factor_index |-> order[i],
            sum_of_squares |-> F64FromNat(BN(order[i] + 2)),
            degrees_of_freedom |-> 1,
            mean_square |-> F64FromNat(BN(order[i] + 2)),
            f_ratio |-> <<F64_TWO>>,
            p_value |-> <<>>,
            contribution_percent |-> F64FromNat(BN(10 * (order[i] + 1))),
            pooled |-> order[i] = 0]],
      error_ss |-> F64_ONE,
      error_df |-> 1,
      error_ms |-> F64_ONE,
      total_ss |-> F64FromNat(BN(9)),
      total_df |-> n + 1],
   optimal_settings |->
     [factor_levels |-> optimal,
      predicted_mean |-> F64_TWO,
      predicted_sn_ratio |-> F64_ONE,
      confidence_interval |->
        <<[lower |-> F64_ONE, upper |-> F64_TWO, level |-> F64_0_95]>>]]

AnalyzeAnswers(n) ==
  {Err("analysis failed")} \cup
  {Ok(LibResult(n, order, optimal)) :
     order \in FactorOrders(n), optimal \in [1..n -> {0, 1}]}

\* run_doe_analysis for one request.  The library is asked only as far as
\* the call gets; oa_levels is the level counts derived from the array.
RunDoeAnalysisOf(request) ==
  \E new_mixed \in (IF DoeReaches(request) = 3 THEN NewMixedAnswers
                    ELSE {NoResult}) :
    \E try_new \in (IF new_mixed.tag = "Ok" THEN TryNewAnswers
                    ELSE {NoResult}) :
      \E analyzed \in (IF try_new.tag = "Ok"
                       THEN AnalyzeAnswers(Len(request.factor_ids))
                       ELSE {NoResult}) :
        /\ cmd' = "run_doe_analysis"
        /\ arg' = [request |-> request]
        /\ ext' = [new_mixed |-> new_mixed,
                   try_new |-> try_new,
                   config |-> IF try_new.tag = "Ok"
                              THEN Ok(AnalysisConfig(request))
                              ELSE NoResult,
                   analyze |-> analyzed]
        /\ oa_levels' = IF DoeReaches(request) = 0 THEN NoResult
                        ELSE levels_per_factor(request.array_data)
        /\ ret' = run_doe_analysis(request, new_mixed, try_new, analyzed)

\* The command run_doe_analysis.
RunDoeAnalysis ==
  /\ cmd = "idle"
  /\ \E array_data \in DoeArrays :
       \E shape \in DoeShapes(array_data) :
         \E options \in DoeOptionsFor(array_data, shape) :
           RunDoeAnalysisOf(DoeRequestOf(array_data, shape[1], shape[2],
                                         shape[3], options))
  /\ UNCHANGED overflow_checks

NextDoe ==
  \/ RunDoeAnalysis
  \/ Return

SpecDoe == Init /\ [][NextDoe]_vars

(***************************************************************************)
(* builder.rs: get_available_constructions.  The catalogue is the          *)
(* library's; it names a construction only for levels that the             *)
(* construction's own constraints (lines 200-221) admit: "Bose" and "Bush" *)
(* for a prime power, "Hadamard-Sylvester" for 2 levels,                   *)
(* "Addelman-Kempthorne" for an odd prime power.                           *)
(***************************************************************************)
get_available_constructions(levels, catalogue, checks) ==
  CollectOptions(catalogue, levels, checks)

\* 4294967291 = 2^32 - 5, the largest prime below 2^32.
LARGEST_PRIME_U32 == BNSub(U32_MAX, BN(4))
\* 6 = 2 * 3 and 4294967295 = 3 * 5 * 17 * 257 * 65537 are no prime powers.
ConstructionLevels == {BN(2), BN(3), BN(6), LARGEST_PRIME_U32, U32_MAX}
PrimePowerLevels == {BN(2), BN(3), LARGEST_PRIME_U32}

Admits(name, levels) ==
  CASE name \in {"Bose", "Bush"} -> levels \in PrimePowerLevels
    [] name \in {"Bose-Bush", "Hadamard-Sylvester", "Hadamard-Paley"} ->
         levels = BN(2)
    [] name = "Addelman-Kempthorne" -> levels \in PrimePowerLevels \ {BN(2)}
    [] OTHER -> TRUE

CataloguesFor(levels) ==
  UNION {[1..n -> {t \in CatalogueTriples : Admits(t[1], levels)}] :
           n \in 0..MaxCatalogue}

GetAvailableConstructions ==
  /\ cmd = "idle"
  /\ \E levels \in ConstructionLevels, strength \in StrengthValues :
       \E catalogue \in CataloguesFor(levels) :
         /\ cmd' = "get_available_constructions"
         /\ arg' = [levels |-> levels, strength |-> strength]
         /\ ext' = [available_constructions |-> Ok(catalogue)]
         /\ oa_levels' = NoResult
         /\ ret' = get_available_constructions(levels, catalogue,
                                               overflow_checks)
  /\ UNCHANGED overflow_checks

NextConstructions ==
  \/ GetAvailableConstructions
  \/ Return

SpecConstructions == Init /\ [][NextConstructions]_vars

(***************************************************************************)
(* export.rs: validate_import.  usize has 64 bits.                         *)
(***************************************************************************)
USIZE_BITS == 64

\* a * b in usize.  With overflow checks an overflowing product panics;
\* without them it wraps modulo 2^64.
UsizeMul(a, b, checks) ==
  With(BNMul(a, b), LAMBDA product :
    IF BNBitLen(product) <= USIZE_BITS THEN Ok(product)
    ELSE IF checks THEN Panic("attempt to multiply with overflow")
    ELSE Ok(BNSub(product, BNShl(BNShr(product, USIZE_BITS), USIZE_BITS))))

\* usize::pow(x, 2) and usize::pow(x, 3): x * x, then x * (x * x).
UsizePow(x, exp, checks) ==
  With(UsizeMul(x, x, checks), LAMBDA square :
    IF square.tag = "Panic" \/ exp = 2 THEN square
    ELSE UsizeMul(x, square.val, checks))

\* Lines 162-172.  The row named in the error is counted from 1.
ImportShapeCheck(data) ==
  IF data = <<>> THEN Err("Array data is empty")
  ELSE IF \E r \in 1..Len(data) : Len(data[r]) # Len(data[1])
  THEN LET i == CHOOSE r \in 1..Len(data) :
                  /\ Len(data[r]) # Len(data[1])
                  /\ \A q \in 1..(r - 1) : Len(data[q]) = Len(data[1])
       IN  Err("Row " \o DisplayUsize(i) \o " has "
               \o DisplayUsize(Len(data[i])) \o " columns, expected "
               \o DisplayUsize(Len(data[1])))
  ELSE Ok(data)

\* Lines 175-179: levels[col] = max_val + 1, or the panic of the first
\* column whose sum overflows.
DetectLevels(data, checks) ==
  IF \E col \in 1..Len(data[1]) :
       U32Add(ColumnMax(data, col), <<1>>, checks).tag = "Panic"
  THEN Panic("attempt to add with overflow")
  ELSE Ok([col \in 1..Len(data[1]) |->
             U32Add(ColumnMax(data, col), <<1>>, checks).val])

\* *levels.iter().max().unwrap_or(&2)
MaxLevelOr2(levels) ==
  IF levels = <<>> THEN BN(2)
  ELSE CHOOSE m \in {levels[i] : i \in 1..Len(levels)} :
         \A i \in 1..Len(levels) : BNLe(levels[i], m)

\* Lines 197-211.
estimate_strength(data, levels, checks) ==
  With(UsizePow(MaxLevelOr2(levels), 3, checks), LAMBDA cube :
    IF cube.tag = "Panic" THEN cube
    ELSE IF BNLe(cube.val, BN(Len(data))) THEN Ok(3)
    ELSE IF BNLe(UsizePow(MaxLevelOr2(levels), 2, checks).val, BN(Len(data)))
    THEN Ok(2)
    ELSE Ok(1))

\* Lines 218-224: whether every value of the column occurs exactly
\* data.len() / level_count times.
ImportBalanced(data, col, expected) ==
  \A r \in 1..Len(data) :
    Cardinality({q \in 1..Len(data) : data[q][col] = data[r][col]}) = expected

\* Lines 213-241: the warnings, or the panic of the division by a level
\* count of 0.
generate_warnings(data, levels) ==
  IF \E col \in 1..Len(levels) : levels[col] = <<>>
  THEN Panic("attempt to divide by zero")
  ELSE With(SelectSeq([col \in 1..Len(levels) |-> col],
                      LAMBDA col : ~ImportBalanced(data, col,
                                      UsizeDivU32(Len(data), levels[col]).val)),
            LAMBDA unbalanced :
    Ok([i \in 1..Len(unbalanced) |->
          "Factor " \o DisplayUsize(unbalanced[i]) \o " may not be balanced"]
       \o (IF Len(data) < 4 THEN <<"Array has very few runs">> ELSE <<>>)
       \o (IF Len(data[1]) > 50
           THEN <<"Array has many factors - analysis may be slow">>
           ELSE <<>>)))

\* Lines 187-194.
ImportValidation(data, levels, strength, warnings) ==
  [runs |-> Len(data),
   factors |-> Len(data[1]),
   levels |-> levels,
   is_mixed |-> Cardinality({levels[i] : i \in 1..Len(levels)}) > 1,
   estimated_strength |-> strength,
   warnings |-> warnings]

\* Lines 154-195.
validate_import(data, checks) ==
  IF ImportShapeCheck(data).tag # "Ok" THEN ImportShapeCheck(data)
  ELSE With(DetectLevels(data, checks), LAMBDA levels :
    IF levels.tag = "Panic" THEN levels
    ELSE With(estimate_strength(data, levels.val, checks), LAMBDA strength :
      IF strength.tag = "Panic" THEN strength
      ELSE With(generate_warnings(data, levels.val), LAMBDA warnings :
        IF warnings.tag = "Panic" THEN warnings
        ELSE Ok(ImportValidation(data, levels.val, strength.val,
                                 warnings.val)))))

\* One row of 51 columns; four balanced runs; the entry 2642245, whose
\* level count 2642246 is the least with a cube of 2^64 or more; the
\* largest entry.
ImportProbes ==
  { <<[col \in 1..51 |-> BN(0)]>>,
    << <<BN(0)>>, <<BN(1)>>, <<BN(0)>>, <<BN(1)>> >>,
    << <<BN(0), BN(0)>>, <<BN(0), BN(1)>>, <<BN(1), BN(0)>>, <<BN(1), BN(1)>> >>,
    << <<BN(2642245)>> >>,
    << <<U32_MAX>> >>,
    << <<BN(0), U32_MAX>>, <<BN(1), BN(0)>> >> }

\* The command validate_import; oa_levels is the levels vector it detects.
ValidateImport ==
  /\ cmd = "idle"
  /\ \E data \in Arrays \cup ImportProbes :
       /\ cmd' = "validate_import"
       /\ arg' = [data |-> data]
       /\ ext' = <<>>
       /\ oa_levels' = IF ImportShapeCheck(data).tag # "Ok" THEN NoResult
                       ELSE DetectLevels(data, overflow_checks)
       /\ ret' = validate_import(data, overflow_checks)
  /\ UNCHANGED overflow_checks

NextImport ==
  \/ ValidateImport
  \/ Return

SpecImport == Init /\ [][NextImport]_vars

(***************************************************************************)
(* export.rs: import_csv.  The file's content is a String; str::lines,     *)
(* str::split, str::trim and str::parse::<u32> work on its characters.     *)
(***************************************************************************)
\* The positions of the character c in s.
CharPositions(s, c) == {i \in 1..Len(s) : SubSeq(s, i, i) = c}

\* The position of the k-th c in s.
NthChar(s, c, k) ==
  CHOOSE p \in CharPositions(s, c) :
    Cardinality({q \in CharPositions(s, c) : q < p}) = k - 1

\* s.split(c): the pieces of s between the c's, one more than there are c's.
Split(s, c) ==
  [k \in 1..(Cardinality(CharPositions(s, c)) + 1) |->
     SubSeq(s,
            IF k = 1 THEN 1 ELSE NthChar(s, c, k - 1) + 1,
            IF k = Cardinality(CharPositions(s, c)) + 1 THEN Len(s)
            ELSE NthChar(s, c, k) - 1)]

\* A line ending is "\n" or "\r\n": the "\r" before a "\n" is not part of
\* the line.
StripCr(s) ==
  IF Len(s) > 0 /\ SubSeq(s, Len(s), Len(s)) = "\r"
  THEN SubSeq(s, 1, Len(s) - 1)
  ELSE s

\* content.lines(): the pieces that end in a line ending, and the rest of
\* the content if it is not empty.
Lines(content) ==
  With(Split(content, "\n"), LAMBDA pieces :
    [k \in 1..(IF pieces[Len(pieces)] = "" THEN Len(pieces) - 1
               ELSE Len(pieces)) |->
       IF k < Len(pieces) THEN StripCr(pieces[k]) ELSE pieces[k]])

WhiteSpace == {" ", "\t", "\r", "\n"}

\* s.trim()
Trim(s) ==
  With({i \in 1..Len(s) : SubSeq(s, i, i) \notin WhiteSpace}, LAMBDA kept :
    IF kept = {} THEN ""
    ELSE SubSeq(s, CHOOSE i \in kept : \A j \in kept : i <= j,
                   CHOOSE i \in kept : \A j \in kept : j <= i))

IsDigit(c) == \E d \in 0..9 : SubSeq("0123456789", d + 1, d + 1) = c
DigitValue(c) == CHOOSE d \in 0..9 : SubSeq("0123456789", d + 1, d + 1) = c

\* The digits of s from position i on, after the value acc of those before.
RECURSIVE ParseDigits(_, _, _)
ParseDigits(s, i, acc) ==
  IF i > Len(s) THEN Ok(acc)
  ELSE IF ~IsDigit(SubSeq(s, i, i)) THEN Err("invalid digit found in string")
  ELSE With(BNAdd(BNMulSmall(acc, 10), BN(DigitValue(SubSeq(s, i, i)))),
            LAMBDA next :
         IF BNLe(next, U32_MAX) THEN ParseDigits(s, i + 1, next)
         ELSE Err("number too large to fit in target type"))

\* s.parse::<u32>()
ParseU32(s) ==
  IF s = "" THEN Err("cannot parse integer from empty string")
  ELSE IF s \in {"+", "-"} THEN Err("invalid digit found in string")
  ELSE IF Head(s) = "+" THEN ParseDigits(Tail(s), 1, <<>>)
  ELSE ParseDigits(s, 1, <<>>)

\* Lines 99-102 and 116-123: the cells of a line, or the error of the first
\* cell that does not parse.
ParseRow(line) ==
  With(Split(line, ","), LAMBDA cells :
    IF \E k \in 1..Len(cells) : ParseU32(Trim(cells[k])).tag = "Err"
    THEN With(CHOOSE k \in 1..Len(cells) :
                /\ ParseU32(Trim(cells[k])).tag = "Err"
                /\ \A j \in 1..(k - 1) : ParseU32(Trim(cells[j])).tag = "Ok",
              LAMBDA k :
           Err("Invalid value '" \o cells[k] \o "': "
               \o ParseU32(Trim(cells[k])).val))
    ELSE Ok([k \in 1..Len(cells) |-> ParseU32(Trim(cells[k])).val]))

\* Lines 98-108: the matrix after the first line, which is kept if all its
\* cells parse and skipped as a header otherwise.
FirstLine(lines) ==
  IF lines # <<>> /\ ParseRow(lines[1]).tag = "Ok"
  THEN <<ParseRow(lines[1]).val>>
  ELSE <<>>

\* A later line whose row is pushed without the comparison of lengths.
ImportLineUnchecked(data, line) ==
  IF Trim(line) = "" THEN Ok(data)
  ELSE IF ParseRow(line).tag = "Err" THEN ParseRow(line)
  ELSE Ok(Append(data, ParseRow(line).val))

\* Lines 111-134 for one later line: the matrix after it, or the error that
\* ends the import.
ImportLine(data, line) ==
  IF Trim(line) = "" THEN Ok(data)
  ELSE With(ParseRow(line), LAMBDA row :
    IF row.tag = "Err" THEN row
    ELSE IF data # <<>> /\ Len(row.val) # Len(data[1])
    THEN Err("Inconsistent row length: expected "
             \o DisplayUsize(Len(data[1])) \o ", got "
             \o DisplayUsize(Len(row.val)))
    ELSE Ok(Append(data, row.val)))

\* Lines 136-140.
ImportResult(data) ==
  IF data = <<>> THEN Err("No data found in file") ELSE Ok(data)

(***************************************************************************)
(* Files for import_csv: up to MaxCsvLines lines of text joined by a line  *)
(* ending, with or without a line ending after the last line.             *)
(***************************************************************************)
MaxCsvLines == 3

\* Texts of lines with what they hold: numbers with their row, a blank line,
\* or other text.
CsvLineTable ==
  { [text |-> "a,b", kind |-> "text", row |-> <<>>],
    [text |-> "1,-1", kind |-> "text", row |-> <<>>],
    [text |-> "4294967296", kind |-> "text", row |-> <<>>],
    [text |-> "", kind |-> "blank", row |-> <<>>],
    [text |-> " \t", kind |-> "blank", row |-> <<>>],
    [text |-> "1,2", kind |-> "numbers", row |-> <<BN(1), BN(2)>>],
    [text |-> " 3 ,+04", kind |-> "numbers", row |-> <<BN(3), BN(4)>>],
    [text |-> "4294967295", kind |-> "numbers", row |-> <<U32_MAX>>] }

CsvTexts == {entry.text : entry \in CsvLineTable}

RECURSIVE JoinLines(_, _, _)
JoinLines(texts, ending, final) ==
  IF texts = <<>> THEN ""
  ELSE IF Len(texts) = 1 THEN texts[1] \o (IF final THEN ending ELSE "")
  ELSE texts[1] \o ending \o JoinLines(Tail(texts), ending, final)

\* A last line without a line ending is not empty.
CsvFiles(n) ==
  {file \in [texts : [1..n -> CsvTexts], ending : {"\n", "\r\n"},
             final : BOOLEAN] :
     /\ file.final \/ (n > 0 /\ file.texts[n] # "")
     /\ file.ending = "\r\n" => file.final}

\* std::fs::read_to_string: the content of the file, or an error.
ReadToString(file) ==
  {Ok(JoinLines(file.texts, file.ending, file.final)),
   Err("No such file or directory (os error 2)")}

(***************************************************************************)
(* The command import_csv, one line of the file at a time.  ext.lines are  *)
(* the lines not yet processed, ext.line is the number of lines processed  *)
(* and ext.data is the matrix accumulated from them.                       *)
(***************************************************************************)
\* The state of the import after the file was read and, if it was read, its
\* first line processed.
ImportStart(file, read, lines) ==
  [file |-> file,
   read |-> read,
   lines |-> IF lines # <<>> THEN Tail(lines) ELSE <<>>,
   line |-> IF lines # <<>> THEN 1 ELSE 0,
   data |-> FirstLine(lines)]

\* Lines 90-108: read the file and process its first line.
ImportCsv ==
  /\ cmd = "idle"
  /\ \E n \in 0..MaxCsvLines : \E file \in CsvFiles(n) :
       \E read \in ReadToString(file) :
         /\ cmd' = "import_csv"
         /\ arg' = [path |-> "array.csv"]
         /\ ext' = ImportStart(file, read,
                               IF read.tag = "Ok" THEN Lines(read.val)
                               ELSE <<>>)
         /\ ret' = IF read.tag = "Ok" THEN NoResult
                   ELSE Err("Failed to read file: " \o read.val)
  /\ oa_levels' = NoResult
  /\ UNCHANGED overflow_checks

\* Lines 111-134: one turn of the loop over the remaining lines.
ImportCsvLine ==
  /\ cmd = "import_csv"
  /\ ret = NoResult
  /\ ext.lines # <<>>
  /\ With(ImportLine(ext.data, Head(ext.lines)), LAMBDA step :
       /\ ext' = [ext EXCEPT !.lines = Tail(@),
                             !.line = @ + 1,
                             !.data = IF step.tag = "Ok" THEN step.val ELSE @]
       /\ ret' = IF step.tag = "Ok" THEN NoResult ELSE step)
  /\ UNCHANGED <<overflow_checks, cmd, arg, oa_levels>>

\* Lines 136-140: after the last line.
ImportCsvEnd ==
  /\ cmd = "import_csv"
  /\ ret = NoResult
  /\ ext.lines = <<>>
  /\ ret' = ImportResult(ext.data)
  /\ UNCHANGED <<overflow_checks, cmd, arg, ext, oa_levels>>

NextCsv ==
  \/ ImportCsv
  \/ ImportCsvLine
  \/ ImportCsvEnd
  \/ Return

SpecCsv == Init /\ [][NextCsv]_vars

Next ==
  \/ VerifyArray
  \/ ComputeArrayStrength
  \/ GetBalanceReport
  \/ GetCorrelationMatrix(ProbeArrays \cup BinaryArrays)
  \/ ValidateBuildParams
  \/ BuildOa
  \/ RunDoeAnalysis
  \/ GetAvailableConstructions
  \/ ValidateImport
  \/ ImportCsv
  \/ ImportCsvLine
  \/ ImportCsvEnd
  \/ Return

Spec == Init /\ [][Next]_vars

(***************************************************************************)
(* Properties of the analysis commands.                                    *)
(***************************************************************************)
AnalysisCommands ==
  {"verify_array", "compute_array_strength", "get_balance_report",
   "get_correlation_matrix"}

\* The calls whose array passed the shape checks of data_to_oa.
WellShaped ==
  /\ cmd \in AnalysisCommands
  /\ Len(arg.data) > 0
  /\ Len(arg.data[1]) > 0
  /\ \A r \in 1..Len(arg.data) : Len(arg.data[r]) = Len(arg.data[1])

\* The entries of column c of the array of the call.
ColumnValues(c) == {arg.data[r][c] : r \in 1..Len(arg.data)}
\* How often v occurs in column c.
Occurrences(c, v) == Cardinality({r \in 1..Len(arg.data) : arg.data[r][c] = v})
\* The integer quotient n / d of a natural n and a non-zero u32 d.
Quotient(n, d) ==
  CHOOSE q \in 0..n : /\ BNLe(BNMulSmall(d, q), BN(n))
                     /\ BNLt(BN(n), BNMulSmall(d, q + 1))
\* Every observed count of column c equals e.
AllCountsAre(c, e) == \A v \in ColumnValues(c) : Occurrences(c, v) = e

\* C1: data_to_oa rejects malformed input with three distinct errors in
\* this order: zero rows gives the empty-input error; otherwise a first row
\* with zero columns gives the empty-factors error; otherwise a row whose
\* length differs from the first row's gives the ragged-rows error.  In all
\* three cases the command returns the error and nothing else happens: no
\* levels are inferred and the library is not called.
C1_ShapeErrorsInOrder ==
  cmd \in AnalysisCommands =>
    /\ Len(arg.data) = 0 => ret = Err("Array data cannot be empty")
    /\ (Len(arg.data) > 0 /\ Len(arg.data[1]) = 0) =>
         ret = Err("Array must have at least one factor")
    /\ ( /\ Len(arg.data) > 0
         /\ Len(arg.data[1]) > 0
         /\ \E r \in 1..Len(arg.data) : Len(arg.data[r]) # Len(arg.data[1]) ) =>
         ret = Err("All rows must have the same number of columns")
    /\ ~WellShaped => /\ ret.tag = "Err"
                      /\ oa_levels = NoResult
                      /\ ext.new_mixed = NoResult

\* A call whose array has an empty first row and a longer second row: both
\* the empty-factors and the ragged-rows condition hold.
C1_Witness ==
  /\ cmd = "get_balance_report"
  /\ Len(arg.data) = 2
  /\ Len(arg.data[1]) = 0
  /\ Len(arg.data[2]) = 1
  /\ ret = Err(ERR_EMPTY_FACTORS)

\* C2: for every non-empty rectangular matrix with at least one column,
\* data_to_oa infers levels[c] = max(column c) + 1 for every factor c, so
\* every entry of factor c is below levels[c] and levels[c] >= 1, for all
\* entry values including the largest u32.
C2_LevelsAreMaxPlusOne ==
  WellShaped =>
    /\ oa_levels.tag = "Ok"
    /\ \A c \in 1..Len(arg.data[1]) :
         /\ \E m \in ColumnValues(c) :
              /\ \A v \in ColumnValues(c) : BNLe(v, m)
              /\ oa_levels.val[c] = BNAdd(m, <<1>>)
         /\ \A v \in ColumnValues(c) : BNLt(v, oa_levels.val[c])
         /\ BNLe(<<1>>, oa_levels.val[c])

\* C3: in the report of get_balance_report, factor_balance[f] is true iff
\* every observed level count of column f equals runs / levels[f], with
\* levels[f] the factor's own inferred level count; in particular when every
\* factor has the same L levels and each level occurs exactly R / L times in
\* every column, every factor is reported balanced.
C3_BalancedIffOwnExpected ==
  (cmd = "get_balance_report" /\ ret.tag = "Ok") =>
    LET R == Len(arg.data)
        F == Len(arg.data[1])
    IN  /\ Len(ret.val.factor_balance) = F
        /\ \A f \in 1..F :
             ret.val.factor_balance[f] = AllCountsAre(f, Quotient(R, oa_levels.val[f]))
        /\ \A L \in 1..R :
             ( /\ R % L = 0
               /\ \A f \in 1..F :
                    /\ ColumnValues(f) = {BN(v) : v \in 0..(L - 1)}
                    /\ \A v \in 0..(L - 1) : Occurrences(f, BN(v)) = R \div L )
             => \A f \in 1..F : ret.val.factor_balance[f]

\* A report of a two-factor array in which one factor is balanced and the
\* other is not.
C3_Witness ==
  /\ cmd = "get_balance_report"
  /\ ret.tag = "Ok"
  /\ Len(arg.data) = 2
  /\ ret.val.factor_balance = <<TRUE, FALSE>>

\* C4 as stated: the expected count is computed once as runs / levels[0]
\* and that value decides every factor's balance flag, and it is the
\* reported expected_count.
C4_SingleExpectedForAll ==
  (cmd = "get_balance_report" /\ ret.tag = "Ok") =>
    LET e0 == Quotient(Len(arg.data), oa_levels.val[1])
    IN  /\ ret.val.expected_count = e0
        /\ \A f \in 1..Len(arg.data[1]) :
             ret.val.factor_balance[f] = AllCountsAre(f, e0)

\* C4: the reported expected_count is runs / levels[0], but it decides the
\* balance flag of no factor whose level count differs from factor 0's: such
\* a factor is judged against runs / levels[f] of its own level count.
C4_ExpectedCountIsFirstOnly ==
  (cmd = "get_balance_report" /\ ret.tag = "Ok") =>
    /\ ret.val.expected_count = Quotient(Len(arg.data), oa_levels.val[1])
    /\ \A f \in 1..Len(arg.data[1]) :
         oa_levels.val[f] # oa_levels.val[1] =>
           ret.val.factor_balance[f] =
             AllCountsAre(f, Quotient(Len(arg.data), oa_levels.val[f]))

\* A mixed-level report: the second factor is balanced against its own
\* expected count and would not be against the reported one.
C4_Witness ==
  /\ cmd = "get_balance_report"
  /\ ret.tag = "Ok"
  /\ Len(arg.data[1]) = 2
  /\ oa_levels.val[2] # oa_levels.val[1]
  /\ ret.val.factor_balance[2]
  /\ ~AllCountsAre(2, ret.val.expected_count)

\* C5: in the matrix of get_correlation_matrix every diagonal entry is
\* exactly 1.0 (also for a constant column), every off-diagonal entry with a
\* constant column i or j is exactly 0.0, no entry is NaN or infinite, and
\* every off-diagonal entry lies in [-1, 1].
C5_CorrelationEntries ==
  (cmd = "get_correlation_matrix" /\ ret.tag = "Ok") =>
    LET F == Len(arg.data[1])
        constant(c) == Cardinality(ColumnValues(c)) = 1
        entry(i, j) == ret.val.matrix[i][j]
    IN  \A i \in 1..F : \A j \in 1..F :
          /\ F64IsFinite(entry(i, j))
          /\ i = j => entry(i, j) = F64_ONE
          /\ (i # j /\ (constant(i) \/ constant(j))) => entry(i, j) = F64_ZERO
          /\ i # j => /\ F64Le(F64Neg(F64_ONE), entry(i, j))
                      /\ F64Le(entry(i, j), F64_ONE)

\* The occurrence of pat in str as a statement about characters.
Occurs(pat, str) ==
  \E i \in 1..Len(str) :
    \A k \in 1..Len(pat) : i + k - 1 <= Len(str) /\ str[i + k - 1] = pat[k]

\* C6: verify_array maps the verifier's issue list to a list of the same
\* length and order; an issue is 'Value Out of Range' iff its rendered text
\* contains 'ValueOutOfRange' and 'Balance Violation' otherwise; every
\* description is the rendered text unchanged; is_valid and actual_strength
\* are the verifier's values and claimed_strength is the caller's input.
C6_IssuesClassified ==
  (cmd = "verify_array" /\ ret.tag = "Ok") =>
    LET result == ext.answer.val
        out == ret.val
    IN  /\ Len(out.issues) = Len(result.issues)
        /\ \A i \in 1..Len(result.issues) :
             /\ out.issues[i].description = result.issues[i]
             /\ out.issues[i].issue_type \in {"Value Out of Range", "Balance Violation"}
             /\ out.issues[i].issue_type = "Value Out of Range"
                  <=> Occurs(VALUE_OUT_OF_RANGE, result.issues[i])
        /\ out.is_valid = result.is_valid
        /\ out.actual_strength = result.actual_strength
        /\ out.claimed_strength = arg.claimed_strength

\* A verification with two issues, the first with the pattern inside its
\* text and the second without it, and a claimed strength that differs from
\* the actual one.
C6_Witness ==
  /\ cmd = "verify_array"
  /\ ret.tag = "Ok"
  /\ Len(ret.val.issues) = 2
  /\ ret.val.issues[1] = [issue_type |-> "Value Out of Range",
                          description |-> TXT_NESTED, location |-> "None"]
  /\ ret.val.issues[2] = [issue_type |-> "Balance Violation",
                          description |-> TXT_NEAR, location |-> "None"]
  /\ ret.val.claimed_strength # ret.val.actual_strength

(***************************************************************************)
(* Properties of validate_build_params.                                    *)
(***************************************************************************)
\* The level value of the request: the symmetric value, or the greatest
\* element of the mixed list.
LevelValue(request) ==
  CHOOSE m \in {request.levels.v[i] : i \in 1..Len(request.levels.v)} :
    \A i \in 1..Len(request.levels.v) : BNLe(request.levels.v[i], m)

LevelTooLow(request) == BNLt(LevelValue(request), BN(2))
NoFactors(request) == request.factors < 1
StrengthTooHigh(request) == BNLt(BN(request.factors), request.strength)
HasHardError(request) ==
  LevelTooLow(request) \/ NoFactors(request) \/ StrengthTooHigh(request)

Validated == cmd = "validate_build_params" /\ arg.request.levels.v # <<>>

\* C7: with an empty mixed-levels list validate_build_params returns at
\* once with valid = false, exactly one error, no warnings and no
\* suggestions; the level, factor-count, strength and prime-power rules are
\* not evaluated and the catalogue is not queried, whatever factors and
\* strength are.
C7_EmptyMixedReturnsAtOnce ==
  ( /\ cmd = "validate_build_params"
    /\ arg.request.levels = [kind |-> "Mixed", v |-> <<>>] ) =>
    /\ ret.tag = "Ok"
    /\ ret.val.valid = FALSE
    /\ Len(ret.val.errors) = 1
    /\ ret.val.errors[1] \notin
         {MSG_LEVELS_MIN, MSG_FACTORS_MIN,
          StrengthExceedsMessage(arg.request.strength, arg.request.factors)}
    /\ ret.val.warnings = <<>>
    /\ ret.val.suggestions = <<>>
    /\ ext.is_prime_power = NoResult
    /\ ext.available_constructions = NoResult

\* An empty mixed list in a request that also has no factors and a strength
\* above the factor count.
C7_Witness ==
  /\ cmd = "validate_build_params"
  /\ arg.request.levels = [kind |-> "Mixed", v |-> <<>>]
  /\ arg.request.factors = 0
  /\ arg.request.strength = BN(3)
  /\ ret.tag = "Ok"

\* The errors of the three rules for a non-empty level specification: one
\* when the level value is below 2, one when factors is below 1, one when
\* strength exceeds factors, each independently of the others, in that
\* order; without a hard error none of the three messages is reported.
AccumulatedErrors ==
  Validated =>
    LET req == arg.request
        strengthError == StrengthExceedsMessage(req.strength, req.factors)
        expected == (IF LevelTooLow(req) THEN <<MSG_LEVELS_MIN>> ELSE <<>>)
                    \o (IF NoFactors(req) THEN <<MSG_FACTORS_MIN>> ELSE <<>>)
                    \o (IF StrengthTooHigh(req) THEN <<strengthError>> ELSE <<>>)
    IN  /\ HasHardError(req) => (ret.tag = "Ok" /\ ret.val.errors = expected)
        /\ (~HasHardError(req) /\ ret.tag = "Ok") =>
             \A i \in 1..Len(ret.val.errors) :
               ret.val.errors[i] \notin
                 {MSG_LEVELS_MIN, MSG_FACTORS_MIN, strengthError}

\* The result is invalid and has the error that names the strength and the
\* factor count.
StrengthErrorReported ==
  /\ ret.tag = "Ok"
  /\ ret.val.valid = FALSE
  /\ \E i \in 1..Len(ret.val.errors) :
       ret.val.errors[i] =
         TXT_STRENGTH \o Display(arg.request.strength) \o TXT_CANNOT_EXCEED
           \o DisplayInt(arg.request.factors)

\* C8 as stated: the hard errors of a non-empty level specification
\* accumulate in order, and any request with strength above factors is
\* invalid with an error naming the strength and the factor count.
C8_AnyRequestNamesStrength ==
  /\ AccumulatedErrors
  /\ (cmd = "validate_build_params" /\ StrengthTooHigh(arg.request)) =>
       StrengthErrorReported

\* C8: the hard errors of a non-empty level specification accumulate: one
\* when the level value is below 2, one when factors is below 1, one when
\* strength exceeds factors, each independently of the others and in that
\* order; a request with a non-empty level specification and strength above
\* factors is invalid with an error naming the strength and the factor
\* count, while one with an empty mixed list has the empty-levels error
\* only.
C8_HardErrorsAccumulate ==
  /\ AccumulatedErrors
  /\ (Validated /\ StrengthTooHigh(arg.request)) => StrengthErrorReported
  /\ (cmd = "validate_build_params" /\ ~Validated) =>
       ret = Ok([valid |-> FALSE, errors |-> <<MSG_NO_LEVELS>>,
                 warnings |-> <<>>, suggestions |-> <<>>])

\* A request that breaks all three rules at once and gets the three errors.
C8_Witness ==
  /\ Validated
  /\ LevelTooLow(arg.request)
  /\ NoFactors(arg.request)
  /\ StrengthTooHigh(arg.request)
  /\ Len(ret.val.errors) = 3

\* C9: the catalogue is queried only when no hard error was recorded; only
\* the candidates with max_factors >= the requested factors are kept, in
\* order; when none is left one more error names the levels, factors and
\* strength; valid = (errors is empty); a request with a hard error has no
\* suggestions and every suggestion has max_factors >= requested factors.
C9_CatalogueAfterHardErrors ==
  cmd = "validate_build_params" =>
    LET req == arg.request
        queried == ext.available_constructions # NoResult
        enough(t) == t[3] >= req.factors
    IN  /\ queried <=> (Validated /\ ~HasHardError(req))
        /\ ret.tag = "Ok" =>
             /\ ret.val.valid = (ret.val.errors = <<>>)
             /\ ~queried => (ret.val.suggestions = <<>> /\ ret.val.errors # <<>>)
             /\ \A i \in 1..Len(ret.val.suggestions) :
                  ret.val.suggestions[i].max_factors >= req.factors
             /\ queried =>
                  LET kept == SelectSeq(ext.available_constructions.val, enough)
                  IN  /\ Len(ret.val.suggestions) = Len(kept)
                      /\ \A i \in 1..Len(kept) :
                           /\ ret.val.suggestions[i].name = kept[i][1]
                           /\ ret.val.suggestions[i].runs = kept[i][2]
                           /\ ret.val.suggestions[i].max_factors = kept[i][3]
                      /\ ret.val.errors =
                           IF kept = <<>>
                           THEN <<TXT_NO_CONSTRUCTION \o Display(LevelValue(req))
                                    \o TXT_LEVELS_SEP \o DisplayInt(req.factors)
                                    \o TXT_FACTORS_SEP \o Display(req.strength)>>
                           ELSE <<>>

\* A query whose catalogue holds one candidate with enough factors and one
\* without: the first is dropped and the second suggested.
C9_Witness ==
  /\ Validated
  /\ ret.tag = "Ok"
  /\ ext.available_constructions # NoResult
  /\ Len(ext.available_constructions.val) = 2
  /\ ext.available_constructions.val[1][3] < arg.request.factors
  /\ Len(ret.val.suggestions) = 1
  /\ ret.val.valid

\* C10: a level value that is not a prime power gives a warning and never
\* an error: the warning does not make valid false, does not suppress the
\* catalogue query, and the result has the same valid flag, errors and
\* suggestions as it has without the warning.
C10_WarningChangesNothingElse ==
  Validated =>
    LET req == arg.request
        warned == ext.is_prime_power = Ok(FALSE)
        warning == TXT_LEVELS \o Display(LevelValue(req)) \o TXT_NOT_PRIME_POWER
        catalogue == IF ext.available_constructions = NoResult THEN <<>>
                     ELSE ext.available_constructions.val
        unwarned == validate_build_params(req, overflow_checks, TRUE, catalogue)
    IN  /\ (ext.available_constructions # NoResult) <=> ~HasHardError(req)
        /\ ret.tag = unwarned.tag
        /\ ret.tag = "Ok" =>
             /\ ret.val.warnings = IF warned THEN <<warning>> ELSE <<>>
             /\ \A i \in 1..Len(ret.val.errors) : ret.val.errors[i] # warning
             /\ unwarned.val.warnings = <<>>
             /\ ret.val.valid = unwarned.val.valid
             /\ ret.val.errors = unwarned.val.errors
             /\ ret.val.suggestions = unwarned.val.suggestions

\* A request with a level value that is reported as no prime power, and
\* which is valid with a suggestion all the same.
C10_Witness ==
  /\ Validated
  /\ ext.is_prime_power = Ok(FALSE)
  /\ ret.tag = "Ok"
  /\ Len(ret.val.warnings) = 1
  /\ ret.val.valid
  /\ ret.val.suggestions # <<>>

(***************************************************************************)
(* Properties of build_oa and detect_algorithm.                            *)
(***************************************************************************)
\* The calls of build_oa for which the library built an array.
Built == cmd = "build_oa" /\ ret.tag = "Ok"
BuiltArray == ext.build.val
Label == ret.val.metadata.algorithm

PowerOfTwo(n) == \E k \in 0..n : 2 ^ k = n
Prime(n) == n > 1 /\ \A a, b \in 2..n : a * b # n

\* C11: detect_algorithm returns, for every (runs, factors, levels), the
\* label of the first rule that matches, in this order: levels = 2 and runs
\* a power of two gives "Hadamard-Sylvester"; levels = 2 and runs - 1 prime
\* gives "Hadamard-Paley"; runs = levels^2 and factors <= levels + 1 gives
\* "Bose"; runs = 2 * levels^2 and factors <= 2 * levels + 1 gives
\* "Bose-Bush" for levels = 2 and "Addelman-Kempthorne" otherwise; anything
\* else gives "Unknown".
C11_FirstMatchingRule ==
  Built =>
    LET runs == BuiltArray.runs
        factors == BuiltArray.factors
        levels == BuiltArray.levels
    IN  Label =
          IF levels = 2 /\ PowerOfTwo(runs) THEN "Hadamard-Sylvester"
          ELSE IF levels = 2 /\ Prime(runs - 1) THEN "Hadamard-Paley"
          ELSE IF runs = levels ^ 2 /\ factors <= levels + 1 THEN "Bose"
          ELSE IF runs = 2 * levels ^ 2 /\ factors <= 2 * levels + 1
               THEN (IF levels = 2 THEN "Bose-Bush" ELSE "Addelman-Kempthorne")
          ELSE "Unknown"

\* A 3-level array with 9 runs and 4 factors was labelled "Bose".
C11_Witness ==
  /\ Built
  /\ BuiltArray.runs = 9 /\ BuiltArray.levels = 3 /\ BuiltArray.factors = 4
  /\ Label = "Bose"

\* C12: an array built by the Bose method (runs = q^2, factors <= q + 1,
\* q levels, q a prime power) is labelled "Bose", and an array built by the
\* Hadamard-Sylvester method (2 levels, runs a power of two) is labelled
\* "Hadamard-Sylvester".
C12_RoundTrip ==
  (Built /\ BuiltArray.method \in {"Bose", "Hadamard-Sylvester"})
    => Label = BuiltArray.method


(***************************************************************************)
(* run_doe_analysis                                                        *)
(***************************************************************************)
DoeCalled == cmd = "run_doe_analysis"
DoeRequest == arg.request
EngineNotInvoked ==
  /\ ext.new_mixed = NoResult
  /\ ext.try_new = NoResult
  /\ ext.config = NoResult
  /\ ext.analyze = NoResult
FirstRowColumns == Len(DoeRequest.array_data[1])
FailsWith(message) == ret = Err(message) /\ EngineNotInvoked

\* C13: run_doe_analysis checks its preconditions in a fixed order (empty
\* array data, empty response data, differing row counts, number of factor
\* identifiers, number of factor names) and fails at the first violated one
\* with its own error, before the external engine is invoked and without a
\* partial analysis.
C13_PreconditionsInOrder ==
  DoeCalled =>
    IF DoeRequest.array_data = <<>> THEN FailsWith("Array data is empty")
    ELSE IF DoeRequest.response_data = <<>>
         THEN FailsWith("Response data is empty")
    ELSE IF Len(DoeRequest.array_data) # Len(DoeRequest.response_data)
         THEN FailsWith("Array data and response data must have same number of runs")
    ELSE IF Len(DoeRequest.factor_ids) # FirstRowColumns
         THEN FailsWith("Number of factor IDs must match number of columns")
    ELSE IF Len(DoeRequest.factor_names) # FirstRowColumns
         THEN FailsWith("Number of factor names must match number of columns")
    ELSE ret \notin {Err("Array data is empty"),
                     Err("Response data is empty"),
                     Err("Array data and response data must have same number of runs"),
                     Err("Number of factor IDs must match number of columns"),
                     Err("Number of factor names must match number of columns")}

\* C13: a call whose identifiers and names both miss the column count fails
\* on the identifiers.
C13_Witness ==
  /\ DoeCalled
  /\ DoeRequest.array_data # <<>>
  /\ Len(DoeRequest.array_data) = Len(DoeRequest.response_data)
  /\ Len(DoeRequest.factor_ids) # FirstRowColumns
  /\ Len(DoeRequest.factor_names) # FirstRowColumns
  /\ ret = Err("Number of factor IDs must match number of columns")
  /\ EngineNotInvoked

RaggedRows(data) == \E r \in 1..Len(data) : Len(data[r]) # Len(data[1])

\* C14: every call of run_doe_analysis ends in a success result or in one
\* error string; a request whose rows do not all have the length of the
\* first row ends in an error string, never in an abort of the call.
C14_SuccessOrErrorString ==
  DoeCalled =>
    /\ ret.tag \in {"Ok", "Err"}
    /\ RaggedRows(DoeRequest.array_data) => ret.tag = "Err"

DoeSucceeded == DoeCalled /\ ret.tag = "Ok"
EngineResult == ext.analyze.val
\* Record made is record given with the factor's identifier and name in
\* place of its index.
Rekeyed(made, given) ==
  /\ made.factor_id = DoeRequest.factor_ids[given.factor_index + 1]
  /\ made.factor_name = DoeRequest.factor_names[given.factor_index + 1]
  /\ \A field \in DOMAIN given \ {"factor_index"} : made[field] = given[field]
  /\ DOMAIN made = (DOMAIN given \ {"factor_index"}) \cup {"factor_id", "factor_name"}
RekeyedList(made, given) ==
  /\ Len(made) = Len(given)
  /\ \A i \in 1..Len(given) : Rekeyed(made[i], given[i])

\* C15: on success every result of the external engine is re-keyed from its
\* column index to the caller's identifier and name with its numbers
\* unchanged, optimal_settings.factor_levels has for every column k the entry
\* factor_ids[k] -> the engine's optimal level of column k, one entry for
\* each factor, and config_id is the empty string.
C15_RekeyedByIdentifier ==
  DoeSucceeded =>
    /\ ret.val.config_id = ""
    /\ ret.val.grand_mean = EngineResult.grand_mean
    /\ ret.val.sn_grand_mean = EngineResult.sn_grand_mean
    /\ RekeyedList(ret.val.main_effects, EngineResult.main_effects)
    /\ RekeyedList(ret.val.sn_ratio_effects, EngineResult.sn_ratio_effects)
    /\ RekeyedList(ret.val.anova.entries, EngineResult.anova.entries)
    /\ \A field \in DOMAIN EngineResult.anova \ {"entries"} :
         ret.val.anova[field] = EngineResult.anova[field]
    /\ \A field \in DOMAIN EngineResult.optimal_settings \ {"factor_levels"} :
         ret.val.optimal_settings[field] = EngineResult.optimal_settings[field]
    /\ \A k \in 1..Len(DoeRequest.factor_ids) :
         /\ DoeRequest.factor_ids[k] \in DOMAIN ret.val.optimal_settings.factor_levels
         /\ ret.val.optimal_settings.factor_levels[DoeRequest.factor_ids[k]]
              = EngineResult.optimal_settings.factor_levels[k]
    /\ Cardinality(DOMAIN ret.val.optimal_settings.factor_levels)
         = Len(DoeRequest.factor_ids)

\* C16: for every non-empty rectangular matrix the level count that
\* run_doe_analysis derives for a column (its number of distinct values) is
\* the level count that data_to_oa infers for that column (its maximum + 1).
C16_SameLevelsAsIngestion ==
  (/\ DoeCalled
   /\ oa_levels.tag = "Ok"
   /\ ~RaggedRows(DoeRequest.array_data)) =>
    \A col \in 1..FirstRowColumns :
      InferLevel(DoeRequest.array_data, col, overflow_checks)
        = Ok(oa_levels.val[col])

Config == ext.config.val
\* The f64 written 0.95: 8556839292003942 * 2^-53.
Literal_0_95 == F64Fin(FALSE, <<26214, 19660, 6553, 243>>, -53)
\* The f64 written 2.0: 2^52 * 2^-51.
Literal_2_0 == F64Fin(FALSE, BNShl(<<1>>, 52), -51)
CallerOrDefault(option, default) == IF option # <<>> THEN option[1] ELSE default

\* C17: the configuration passed to the external engine has, for each
\* option on its own, the caller's value when supplied and otherwise the
\* default (pooling threshold 2.0, pooling enabled, minimum unpooled factors
\* 1, confidence level 0.95); the optimization goal goes to the value of the
\* same name and target_value is passed through unchanged.
C17_ConfigDefaults ==
  (DoeCalled /\ ext.config.tag = "Ok") =>
    /\ Config.pooling_threshold
         = CallerOrDefault(DoeRequest.pooling_threshold, Literal_2_0)
    /\ Config.enable_pooling = CallerOrDefault(DoeRequest.enable_pooling, TRUE)
    /\ Config.min_unpooled_factors
         = CallerOrDefault(DoeRequest.min_unpooled_factors, 1)
    /\ Config.confidence_level
         = CallerOrDefault(DoeRequest.confidence_level, Literal_0_95)
    /\ Config.optimization_type = DoeRequest.optimization_type
    /\ Config.optimization_type
         \in {"LargerIsBetter", "SmallerIsBetter", "NominalIsBest"}
    /\ Config.target_value = DoeRequest.target_value

\* C17: a configuration with the caller's pooling threshold and pooling
\* switch beside the default confidence level and minimum.
C17_Witness ==
  /\ DoeCalled
  /\ ext.config.tag = "Ok"
  /\ DoeRequest.pooling_threshold = <<F64_ONE>>
  /\ DoeRequest.enable_pooling = <<FALSE>>
  /\ DoeRequest.min_unpooled_factors = <<>>
  /\ DoeRequest.confidence_level = <<>>
  /\ DoeRequest.optimization_type = "NominalIsBest"
  /\ DoeRequest.target_value = <<F64_ONE>>
  /\ Config.pooling_threshold = F64_ONE
  /\ ~Config.enable_pooling
  /\ Config.min_unpooled_factors = 1
  /\ Config.confidence_level = Literal_0_95


(***************************************************************************)
(* get_available_constructions                                             *)
(***************************************************************************)
ConstructionsCalled == cmd = "get_available_constructions"
Catalogue == ext.available_constructions.val
StaticTableNames ==
  {"Bose", "Bush", "Bose-Bush", "Hadamard-Sylvester", "Hadamard-Paley",
   "Addelman-Kempthorne", "Rao-Hamming"}

C20_ValidIffSuggestions ==
  (cmd = "validate_build_params" /\ ret.tag = "Ok") =>
    /\ ret.val.valid <=> ret.val.suggestions # <<>>
    /\ ret.val.errors = <<>> <=>
         /\ ext.available_constructions.tag = "Ok"
         /\ \E i \in 1..Len(ext.available_constructions.val) :
              ext.available_constructions.val[i][3] >= arg.request.factors

\* C20: a request without hard errors whose catalogue is not empty but
\* offers too few factors: no suggestion, not valid.
C20_Witness ==
  /\ cmd = "validate_build_params"
  /\ ret.tag = "Ok"
  /\ arg.request.levels.v # <<>>
  /\ ~HasHardError(arg.request)
  /\ ext.available_constructions.tag = "Ok"
  /\ ext.available_constructions.val # <<>>
  /\ \A i \in 1..Len(ext.available_constructions.val) :
       ext.available_constructions.val[i][3] < arg.request.factors
  /\ ret.val.suggestions = <<>>
  /\ ~ret.val.valid
  /\ Len(ret.val.errors) = 1


(***************************************************************************)
(* validate_import                                                         *)
(***************************************************************************)
\* C19: validate_import returns a success result for every non-empty matrix
\* whose rows all have the length of the first row, whatever its warnings,
\* for every entry value up to the largest 32-bit value and for a matrix
\* with zero columns.
C19_WarningsNeverBlock ==
  (/\ cmd = "validate_import"
   /\ arg.data # <<>>
   /\ ~RaggedRows(arg.data)) =>
    ret.tag = "Ok"


\* C21: detect_algorithm never returns "Bose-Bush": that branch needs
\* levels = 2 and runs = 2 * levels^2 = 8, and for those the power-of-two
\* rule has already returned "Hadamard-Sylvester".
C21_NeverBoseBush ==
  Built =>
    /\ Label # "Bose-Bush"
    /\ (BuiltArray.levels = 2 /\ BuiltArray.runs = 2 * BuiltArray.levels ^ 2)
         => (BuiltArray.runs = 8 /\ Label = "Hadamard-Sylvester")

\* C21: a 2-level array with 8 runs and few enough factors for the
\* "Bose-Bush" branch was labelled "Hadamard-Sylvester".
C21_Witness ==
  /\ Built
  /\ BuiltArray.levels = 2
  /\ BuiltArray.runs = 8
  /\ BuiltArray.factors <= 2 * BuiltArray.levels + 1
  /\ Label = "Hadamard-Sylvester"

\* C22: whenever get_balance_report reports factor f of an array with at
\* least one run balanced, the inferred level count of f divides runs exactly
\* and every level value in [0, levels[f]) occurs exactly runs / levels[f]
\* times in column f; a column with a gap in its level encoding, or with runs
\* not divisible by its level count, is never reported balanced.
C22_BalancedMeansFullAndEven ==
  (cmd = "get_balance_report" /\ ret.tag = "Ok" /\ Len(arg.data) >= 1) =>
    \A f \in 1..Len(arg.data[1]) :
      ret.val.factor_balance[f] =>
        \E q \in 1..Len(arg.data) :
          /\ BNMulSmall(oa_levels.val[f], q) = BN(Len(arg.data))
          /\ \A v \in 0..(BNSmall(oa_levels.val[f]) - 1) :
               Occurrences(f, BN(v)) = q

\* C22: a report on two runs whose first column holds 0 and 1 and is
\* reported balanced, and whose second column holds 0 and 2, a gap at 1, and
\* is not.
C22_Witness ==
  /\ cmd = "get_balance_report"
  /\ ret.tag = "Ok"
  /\ arg.data = << <<BN(0), BN(0)>>, <<BN(1), BN(2)>> >>
  /\ ret.val.factor_balance = <<TRUE, FALSE>>


(***************************************************************************)
(* import_csv                                                              *)
(***************************************************************************)
\* The calls of import_csv that read their file.
Importing == cmd = "import_csv" /\ ext.read.tag = "Ok"
FileLine(i) == CHOOSE entry \in CsvLineTable : entry.text = ext.file.texts[i]
\* Line i is kept as a row: the first line if it holds numbers, a later line
\* unless it is blank.
Retained(i) ==
  IF i = 1 THEN FileLine(1).kind = "numbers" ELSE FileLine(i).kind # "blank"
\* Later line i does not parse, or has another number of cells than the
\* first row retained before it.
Offending(i) ==
  \/ FileLine(i).kind = "text"
  \/ /\ FileLine(i).kind = "numbers"
     /\ \E j \in 1..(i - 1) :
          /\ Retained(j)
          /\ \A h \in 1..(j - 1) : ~Retained(h)
          /\ Len(FileLine(j).row) # Len(FileLine(i).row)
Rectangular(matrix) ==
  \A r \in 1..Len(matrix) :
    Len(matrix[r]) = Len(matrix[1]) /\ Len(matrix[r]) >= 1
\* The import was ended by its line ext.line.
EndedByLine == ret.tag = "Err" /\ ret # Err("No data found in file")
\* The rows of the retained lines among the first n lines, in order.
RowsOfFirst(n) ==
  [k \in 1..Cardinality({i \in 1..n : Retained(i)}) |->
     FileLine(CHOOSE i \in 1..n :
                /\ Retained(i)
                /\ Cardinality({j \in 1..i : Retained(j)}) = k).row]

\* C23: import_csv processes the lines in order and its matrix is
\* rectangular after every line; a first line that does not parse is skipped
\* as a header, blank later lines are skipped, and a later line that does not
\* parse or whose number of cells differs from the first retained row's ends
\* the import with an error; on success the matrix returned is not empty and
\* rectangular, and a file without a retained row gives the 'No data found'
\* error.
C23_RectangularAfterEveryLine ==
  Importing =>
    /\ Rectangular(ext.data)
    /\ ext.line + Len(ext.lines) = Len(ext.file.texts)
    /\ ext.data = RowsOfFirst(IF EndedByLine THEN ext.line - 1 ELSE ext.line)
    /\ \A i \in 2..ext.line : Offending(i) <=> (EndedByLine /\ i = ext.line)
    /\ ret.tag = "Ok" =>
         /\ ext.lines = <<>>
         /\ ret.val = ext.data
         /\ ret.val # <<>>
         /\ Rectangular(ret.val)
    /\ (ret # NoResult /\ ~EndedByLine /\ \A i \in 1..ext.line : ~Retained(i))
         => ret = Err("No data found in file")
    /\ ret = Err("No data found in file") =>
         ext.lines = <<>> /\ \A i \in 1..ext.line : ~Retained(i)

\* C23: an import that skipped its header, kept a row of two cells, skipped
\* a blank line and has returned the one-row matrix.
C23_Witness ==
  /\ Importing
  /\ ext.file.texts = <<"a,b", " 3 ,+04", " \t">>
  /\ ext.file.ending = "\r\n"
  /\ ext.line = 3
  /\ ret = Ok(<< <<BN(3), BN(4)>> >>)

====
